---- MODULE Spec2Model ----
(***************************************************************************)
(* Cafeteria ordering front end (React pages) against its Postgres schema  *)
(* with row-level security.  The database tables are shared state.  Every  *)
(* client (a browser with the application open, called a tab below) holds  *)
(* its supabase session, the React state of the page it shows, and the     *)
(* async handler calls it has in flight.  A handler call runs from one     *)
(* `await` to the next in one step; between two steps of a call every      *)
(* other call, of the same tab or of another, may run, the user may click  *)
(* again and the route may change.                                         *)
(*                                                                         *)
(* Money.  JavaScript numbers are IEEE doubles and the columns are         *)
(* `numeric`, which keeps the decimal the client sent (the shortest        *)
(* decimal that reads back as the double).  Prices are whole currency      *)
(* units here (as the seed prices are), on which products and sums are     *)
(* exact.  The tax, subtotal * 0.05, is not: it is kept as a decimal of    *)
(* hundredths plus a residue in units of 10^-17, the residue taken from    *)
(* the table of what the double product gives.                             *)
(***************************************************************************)
EXTENDS Integers, Sequences, FiniteSets, TLC

\* ---------------------------------------------------------------- bounds
MaxOrders == 2
MaxAdds == 2
MaxQty == 2
MaxInFlight == 2

\* ------------------------------------------------------------- constants
TaxRatePercent == 5
OrderNumberModulus == 1000000

Null == "null"

Tabs == {"t1", "t2", "t3", "t4", "t5"}
Users == {"s1", "s2", "a1"}
\* somebody who has no account yet and may sign up
NewUsers == {"n1"}
Items == {"m1", "m2"}
Roles == {"student", "admin"}
Statuses == {"pending", "preparing", "ready", "completed", "cancelled"}
PaymentMethods == {"upi", "card", "razorpay"}

\* seed rows of menu_items (Auth.tsx:444-452): two of them, priced 100 and 150
SeedMenu ==
  [m \in Items |-> [price |-> IF m = "m1" THEN 100 ELSE 150,
                    is_available |-> TRUE]]

\* the rows handle_new_user made for the registered users (Auth.tsx:423-435)
SeedProfiles == [u \in Users |-> IF u = "a1" THEN "admin" ELSE "student"]

\* who is signed in where at the start: one student on two clients, one admin
\* on two clients, a second student on one client
SeedSession ==
  [t \in Tabs |-> IF t \in {"t1", "t2"} THEN "s1" ELSE IF t = "t5" THEN "s2" ELSE "a1"]

VARIABLES
  menu_items,   \* table menu_items: id -> [price, is_available]
  cart_items,   \* table cart_items: set of rows
  orders,       \* table orders: set of rows
  order_items,  \* table order_items: set of rows
  profiles,     \* table profiles: id -> role
  next_cart_id, \* gen_random_uuid() for cart_items.id
  next_order_id,\* gen_random_uuid() for orders.id
  session,      \* the user of each tab's supabase session, or Null
  calls,        \* the handler calls in flight, each waiting on one await
  page,         \* the page each tab shows
  cartItems,    \* Cart page state
  paymentMethod,\* Cart page state
  menuItems,    \* Menu page state
  isAuthenticated, \* Menu page state
  ordersView,   \* Orders page state `orders`
  isAdmin,      \* Orders page state
  loading,      \* state `loading` of the page shown (FALSE where the page has none)
  isLoading,    \* Auth page state
  profile,      \* state `profile` of the dashboards and the profile page: its role, or Null
  toast,        \* the last toast shown: in which tab, which message
  error,        \* whether the response last received carried an error
  adds          \* how many calls of handleAddToCart went past its sign-in test

dbVars == <<menu_items, cart_items, orders, order_items, profiles, next_cart_id, next_order_id>>
pageVars == <<page, cartItems, paymentMethod, menuItems, isAuthenticated, ordersView, isAdmin,
              loading, isLoading, profile>>
tabVars == <<session, calls, pageVars, toast, error>>
vars == <<dbVars, tabVars, adds>>

\* profiles.role of a user (Auth.tsx:288); nobody has none
Role(u) == IF u \in DOMAIN profiles THEN profiles[u] ELSE Null

\* a timestamp column that is NULL
NoTime == 0 - 1

Toast(t, msg) == [tab |-> t, msg |-> msg]

\* ------------------------------------------------------------------ money
\* a decimal: c hundredths and r units of 10^-17
Dec(c, r) == [c |-> c, r |-> r]

Whole(x) == Dec(100 * x, 0)

DecPlus(a, b) == Dec(a.c + b.c, a.r + b.r)

DecNonNegative(a) == a.c > 0 \/ (a.c = 0 /\ a.r >= 0)

\* whole x up to 1000 on which the double x * 0.05 is not the decimal x / 20,
\* with the residue of its shortest decimal in units of 10^-17
\* (3 * 0.05 is 0.15000000000000002)
TaxResidues ==
  { <<3, 2>>, <<6, 4>>, <<7, 3>>, <<12, 10>>, <<14, 10>>,
    <<17, 10>>, <<19, 10>>, <<23, 10>>, <<24, 20>>, <<28, 10>>,
    <<29, 20>>, <<33, 10>>, <<34, 20>>, <<38, 10>>, <<39, 20>>,
    <<41, 30>>, <<46, 30>>, <<48, 40>>, <<51, 30>>, <<53, 40>>,
    <<56, 30>>, <<58, 40>>, <<61, 30>>, <<63, 40>>, <<66, 30>>,
    <<68, 40>>, <<71, 30>>, <<73, 40>>, <<76, 30>>, <<78, 40>>,
    <<82, 50>>, <<87, 50>>, <<92, 50>>, <<96, 100>>,
    <<97, 50>>, <<101, 100>>, <<102, 50>>, <<106, 100>>,
    <<107, 50>>, <<111, 100>>, <<112, 50>>, <<116, 100>>,
    <<117, 50>>, <<121, 100>>, <<122, 50>>, <<126, 100>>,
    <<127, 50>>, <<131, 100>>, <<132, 50>>, <<136, 100>>,
    <<137, 50>>, <<141, 100>>, <<142, 50>>, <<146, 100>>,
    <<147, 50>>, <<151, 100>>, <<152, 50>>, <<156, 100>>,
    <<157, 50>>, <<164, 100>>, <<169, 100>>, <<174, 100>>,
    <<179, 100>>, <<184, 100>>, <<189, 100>>, <<192, 100>>,
    <<194, 100>>, <<197, 100>>, <<199, 100>>, <<202, 100>>,
    <<204, 100>>, <<207, 100>>, <<209, 100>>, <<212, 100>>,
    <<214, 100>>, <<217, 100>>, <<219, 100>>, <<222, 100>>,
    <<224, 100>>, <<227, 100>>, <<229, 100>>, <<232, 100>>,
    <<234, 100>>, <<237, 100>>, <<239, 100>>, <<242, 100>>,
    <<244, 100>>, <<247, 100>>, <<249, 100>>, <<252, 100>>,
    <<254, 100>>, <<257, 100>>, <<259, 100>>, <<262, 100>>,
    <<264, 100>>, <<267, 100>>, <<269, 100>>, <<272, 100>>,
    <<274, 100>>, <<277, 100>>, <<279, 100>>, <<282, 100>>,
    <<284, 100>>, <<287, 100>>, <<289, 100>>, <<292, 100>>,
    <<294, 100>>, <<297, 100>>, <<299, 100>>, <<302, 100>>,
    <<304, 100>>, <<307, 100>>, <<309, 100>>, <<312, 100>>,
    <<314, 100>>, <<317, 100>>, <<319, 100>>, <<323, 200>>,
    <<328, 200>>, <<333, 200>>, <<338, 200>>, <<343, 200>>,
    <<348, 200>>, <<353, 200>>, <<358, 200>>, <<363, 200>>,
    <<368, 200>>, <<373, 200>>, <<378, 200>>, <<383, 200>>,
    <<384, 300>>, <<388, 200>>, <<389, 300>>, <<393, 200>>,
    <<394, 300>>, <<398, 200>>, <<399, 300>>, <<403, 200>>,
    <<404, 300>>, <<408, 200>>, <<409, 300>>, <<413, 200>>,
    <<414, 300>>, <<418, 200>>, <<419, 300>>, <<423, 200>>,
    <<424, 300>>, <<428, 200>>, <<429, 300>>, <<433, 200>>,
    <<434, 300>>, <<438, 200>>, <<439, 300>>, <<443, 200>>,
    <<444, 300>>, <<448, 200>>, <<449, 300>>, <<453, 200>>,
    <<454, 300>>, <<458, 200>>, <<459, 300>>, <<463, 200>>,
    <<464, 300>>, <<468, 200>>, <<469, 300>>, <<473, 200>>,
    <<474, 300>>, <<478, 200>>, <<479, 300>>, <<483, 200>>,
    <<484, 300>>, <<488, 200>>, <<489, 300>>, <<493, 200>>,
    <<494, 300>>, <<498, 200>>, <<499, 300>>, <<503, 200>>,
    <<504, 300>>, <<508, 200>>, <<509, 300>>, <<513, 200>>,
    <<514, 300>>, <<518, 200>>, <<519, 300>>, <<523, 200>>,
    <<524, 300>>, <<528, 200>>, <<529, 300>>, <<533, 200>>,
    <<534, 300>>, <<538, 200>>, <<539, 300>>, <<543, 200>>,
    <<544, 300>>, <<548, 200>>, <<549, 300>>, <<553, 200>>,
    <<554, 300>>, <<558, 200>>, <<559, 300>>, <<563, 200>>,
    <<564, 300>>, <<568, 200>>, <<569, 300>>, <<573, 200>>,
    <<574, 300>>, <<578, 200>>, <<579, 300>>, <<583, 200>>,
    <<584, 300>>, <<588, 200>>, <<589, 300>>, <<593, 200>>,
    <<594, 300>>, <<598, 200>>, <<599, 300>>, <<603, 200>>,
    <<604, 300>>, <<608, 200>>, <<609, 300>>, <<613, 200>>,
    <<614, 300>>, <<618, 200>>, <<619, 300>>, <<623, 200>>,
    <<624, 300>>, <<628, 200>>, <<629, 300>>, <<633, 200>>,
    <<634, 300>>, <<638, 200>>, <<639, 300>>, <<641, 400>>,
    <<646, 400>>, <<651, 400>>, <<656, 400>>, <<661, 400>>,
    <<666, 400>>, <<671, 400>>, <<676, 400>>, <<681, 400>>,
    <<686, 400>>, <<691, 400>>, <<696, 400>>, <<701, 400>>,
    <<706, 400>>, <<711, 400>>, <<716, 400>>, <<721, 400>>,
    <<726, 400>>, <<731, 400>>, <<736, 400>>, <<741, 400>>,
    <<746, 400>>, <<751, 400>>, <<756, 400>>, <<761, 400>>,
    <<766, 400>>, <<768, 600>>, <<771, 400>>, <<773, 600>>,
    <<776, 400>>, <<778, 600>>, <<781, 400>>, <<783, 600>>,
    <<786, 400>>, <<788, 600>>, <<791, 400>>, <<793, 600>>,
    <<796, 400>>, <<798, 600>>, <<801, 400>>, <<803, 600>>,
    <<806, 400>>, <<808, 600>>, <<811, 400>>, <<813, 600>>,
    <<816, 400>>, <<818, 600>>, <<821, 400>>, <<823, 600>>,
    <<826, 400>>, <<828, 600>>, <<831, 400>>, <<833, 600>>,
    <<836, 400>>, <<838, 600>>, <<841, 400>>, <<843, 600>>,
    <<846, 400>>, <<848, 600>>, <<851, 400>>, <<853, 600>>,
    <<856, 400>>, <<858, 600>>, <<861, 400>>, <<863, 600>>,
    <<866, 400>>, <<868, 600>>, <<871, 400>>, <<873, 600>>,
    <<876, 400>>, <<878, 600>>, <<881, 400>>, <<883, 600>>,
    <<886, 400>>, <<888, 600>>, <<891, 400>>, <<893, 600>>,
    <<896, 400>>, <<898, 600>>, <<901, 400>>, <<903, 600>>,
    <<906, 400>>, <<908, 600>>, <<911, 400>>, <<913, 600>>,
    <<916, 400>>, <<918, 600>>, <<921, 400>>, <<923, 600>>,
    <<926, 400>>, <<928, 600>>, <<931, 400>>, <<933, 600>>,
    <<936, 400>>, <<938, 600>>, <<941, 400>>, <<943, 600>>,
    <<946, 400>>, <<948, 600>>, <<951, 400>>, <<953, 600>>,
    <<956, 400>>, <<958, 600>>, <<961, 400>>, <<963, 600>>,
    <<966, 400>>, <<968, 600>>, <<971, 400>>, <<973, 600>>,
    <<976, 400>>, <<978, 600>>, <<981, 400>>, <<983, 600>>,
    <<986, 400>>, <<988, 600>>, <<991, 400>>, <<993, 600>>,
    <<996, 400>>, <<998, 600>> }

\* the residue of x * 0.05, for whole x from 0 to 1000
TaxResidue ==
  [x \in 0..1000 |->
     LET hit == { e \in TaxResidues : e[1] = x }
     IN IF hit = {} THEN 0 ELSE (CHOOSE e \in hit : TRUE)[2]]

\* the double product subtotal * 0.05 of Cart.tsx:106
TimesTaxRate(subtotal) == Dec(TaxRatePercent * subtotal, TaxResidue[subtotal])

\* the double sum subtotal + tax of Cart.tsx:107: doubles near the sum lie
\* further apart than the residue of the tax, and for every whole subtotal from
\* 0 to 1000 the sum is the double whose shortest decimal is subtotal * 1.05
PlusTax(subtotal, tax) ==
  IF subtotal \in 0..1000 /\ tax = TimesTaxRate(subtotal)
  THEN Dec(100 * subtotal + tax.c, 0)
  ELSE DecPlus(Whole(subtotal), tax)

\* ------------------------------------------------------ row-level security
\* Auth.tsx:373-376: a user may update the own profiles row, any column of it
RlsProfilesSelect(caller, id) == TRUE
RlsProfilesUpdate(caller, id) == caller = id
\* Auth.tsx:379-382
RlsMenuSelect(caller, row) == row.is_available \/ caller # Null
RlsMenuUpdate(caller) == Role(caller) = "admin"
\* Auth.tsx:385-387
RlsOrdersSelect(caller, row) == row.student_id = caller \/ Role(caller) = "admin"
RlsOrdersInsert(caller, row) == row.student_id = caller
RlsOrdersUpdate(caller, row) == Role(caller) = "admin"
\* Auth.tsx:393-395
RlsOrderItemsInsert(caller, row, ordersTable) ==
  \E o \in ordersTable : o.id = row.order_id /\ o.student_id = caller
\* Auth.tsx:403-406
RlsCartSelect(caller, row) == row.student_id = caller
RlsCartInsert(caller, row) == row.student_id = caller
RlsCartUpdate(caller, row) == row.student_id = caller
RlsCartDelete(caller, row) == row.student_id = caller

\* --------------------------------------------------------- table operations
\* cart_items without its UNIQUE(student_id, menu_item_id): a variant that two
\* inserts for one pair have to tell apart
CartConstraintsQuantityOnly(table, row) == row.quantity > 0

\* UNIQUE(student_id, menu_item_id) and CHECK (quantity > 0), Auth.tsx:355-363
CartConstraints(table, row) ==
  /\ row.quantity > 0
  /\ ~ \E r \in table : r.student_id = row.student_id /\ r.menu_item_id = row.menu_item_id

\* order_number UNIQUE and the CHECKs of Auth.tsx:314-328
OrdersConstraints(table, row) ==
  /\ ~ \E o \in table : o.order_number = row.order_number
  /\ row.status \in Statuses
  /\ row.payment_method \in PaymentMethods
  /\ row.subtotal >= 0 /\ DecNonNegative(row.tax) /\ DecNonNegative(row.total)

\* CHECKs of Auth.tsx:331-339
OrderItemsConstraints(row) ==
  row.quantity > 0 /\ row.price_at_order >= 0 /\ row.subtotal >= 0

\* UPDATE ... WHERE id = ..: rows the USING policy hides are skipped silently
UpdateCartQuantity(table, caller, id, q) ==
  { IF r.id = id /\ RlsCartUpdate(caller, r) THEN [r EXCEPT !.quantity = q] ELSE r
    : r \in table }

DeleteCartById(table, caller, id) ==
  { r \in table : ~ (r.id = id /\ RlsCartDelete(caller, r)) }

DeleteCartOfStudent(table, caller, student) ==
  { r \in table : ~ (r.student_id = student /\ RlsCartDelete(caller, r)) }

\* the update of Orders.tsx:90-93 without its .eq('id', orderId): a variant that
\* the other orders have to tell apart
UpdateOrderStatusEveryRow(table, caller, id, newStatus) ==
  { IF RlsOrdersUpdate(caller, o) THEN [o EXCEPT !.status = newStatus] ELSE o : o \in table }

UpdateOrderStatusRows(table, caller, id, newStatus) ==
  { IF o.id = id /\ RlsOrdersUpdate(caller, o) THEN [o EXCEPT !.status = newStatus] ELSE o
    : o \in table }

\* .select('*').eq('student_id', ..).eq('menu_item_id', ..).single(): the row, or
\* nothing when there is not exactly one
ExistingItem(table, caller, student, m) ==
  LET hit == { r \in table : r.student_id = student /\ r.menu_item_id = m /\ RlsCartSelect(caller, r) }
  IN IF Cardinality(hit) = 1 THEN hit ELSE {}

\* loadCart's query: the rows of the student that the caller may see, joined
\* with the live menu_items row (a caller who sees a cart row is signed in and
\* sees every menu_items row, Auth.tsx:379)
CartQuery(caller, student) ==
  { [id |-> r.id, quantity |-> r.quantity,
     menu_item |-> [id |-> r.menu_item_id, price |-> menu_items[r.menu_item_id].price]]
    : r \in { x \in cart_items : x.student_id = student /\ RlsCartSelect(caller, x) } }

RECURSIVE Perms(_)
Perms(S) ==
  IF S = {} THEN { <<>> }
  ELSE UNION { { <<x>> \o p : p \in Perms(S \ {x}) } : x \in S }

\* loadOrders' query: .order('created_at', { ascending: false }), and the student
\* filter for a caller who is not admin; rows of equal created_at come in any order
OrdersQuery(caller, student, isAdminUser) ==
  LET rows == { o \in orders :
                  /\ RlsOrdersSelect(caller, o)
                  /\ (isAdminUser \/ o.student_id = student) }
      view(o) == [id |-> o.id, status |-> o.status, created_at |-> o.created_at]
  IN { [i \in 1..Len(p) |-> view(p[i])] :
         p \in { q \in Perms(rows) :
                   \A i \in 1..Len(q), j \in 1..Len(q) :
                     i < j => q[i].created_at >= q[j].created_at } }

\* ------------------------------------------------------------- Cart.tsx
\* the reduce of Cart.tsx:105; on whole prices the double products and sums
\* are the integer ones
RECURSIVE SumLines(_)
SumLines(items) ==
  IF items = {} THEN 0
  ELSE LET it == CHOOSE x \in items : TRUE
       IN it.menu_item.price * it.quantity + SumLines(items \ {it})

\* calculateTotal (Cart.tsx:104-108): tax and total in doubles
calculateTotal(items) ==
  LET subtotal == SumLines(items)
      tax == TimesTaxRate(subtotal)
  IN [subtotal |-> subtotal, tax |-> tax, total |-> PlusTax(subtotal, tax)]

\* `ORD-${Date.now().toString().slice(-6)}`
OrderNumber(ms) == ms % OrderNumberModulus

\* Date.now() as handleCheckout reads it.  Only its last six digits are used,
\* they wrap, and they are only ever compared for equality (order_number
\* UNIQUE): a reading either repeats a suffix in use or is new, and the new one
\* is named by the least number not in use
ClockReadings(used) ==
  used \cup { CHOOSE n \in 0..Cardinality(used) :
                n \notin used /\ \A k \in 0..(n - 1) : k \in used }

\* the row without payment_status in the insert, left to the column default of
\* Auth.tsx:323: a variant an order created as paid has to tell apart
OrderRowUnpaid(id, student, items, number, pm) ==
  LET tot == calculateTotal(items)
  IN [id |-> id,
      order_number |-> number,
      student_id |-> student,
      status |-> "pending",
      subtotal |-> tot.subtotal,
      tax |-> tot.tax,
      total |-> tot.total,
      payment_method |-> pm,
      payment_status |-> "pending",
      created_at |-> id,
      completed_at |-> NoTime]

\* the row handleCheckout inserts (Cart.tsx:125-134) with the column defaults of
\* Auth.tsx:314-328; created_at, the database's now(), is the rank of the insert
OrderRow(id, student, items, number, pm) ==
  LET tot == calculateTotal(items)
  IN [id |-> id,
      order_number |-> number,
      student_id |-> student,
      status |-> "pending",
      subtotal |-> tot.subtotal,
      tax |-> tot.tax,
      total |-> tot.total,
      payment_method |-> pm,
      payment_status |-> "completed",
      created_at |-> id,
      completed_at |-> NoTime]

\* cartItems.map(..) of Cart.tsx:144-150; cart_item remembers the cart entry the
\* line was made from (history, not a column)
OrderItemRows(order_id, items) ==
  { [order_id |-> order_id,
     menu_item_id |-> it.menu_item.id,
     quantity |-> it.quantity,
     price_at_order |-> it.menu_item.price,
     subtotal |-> it.menu_item.price * it.quantity,
     cart_item |-> it.id] : it \in items }

\* ------------------------------------------------------------ Orders.tsx
\* the buttons of Orders.tsx:186-220
Offered(admin, status) ==
  IF admin /\ status # "completed" /\ status # "cancelled"
  THEN (CASE status = "pending" -> {"preparing"}
          [] status = "preparing" -> {"ready"}
          [] status = "ready" -> {"completed"}
          [] OTHER -> {}) \cup {"cancelled"}
  ELSE {}

\* ------------------------------------------------------------ handler calls
\* the calls of a tab
CallsOf(t, S) == { c \in S : c.tab = t }

\* calls of one tab are told apart by a number, the least one free
FreeSlot(t, S) ==
  LET used == { c.n : c \in CallsOf(t, S) }
  IN CHOOSE n \in 1..(Cardinality(used) + 1) :
       n \notin used /\ \A k \in 1..(n - 1) : k \in used

\* a call of handler fn waiting on the await named pc, with its locals:
\* mounted   whether the component that started it is still mounted
\* user      what getUser() returned
\* jwt       the session the pending request was sent with
\* existing  the rows handleAddToCart's read found (none or one)
\* items, pm cartItems and paymentMethod of the render the handler closed over
\* admin     loadOrders' argument isAdminUser
\* role      the role chosen on the sign-up form
NewCall(t, n, fn, pc) ==
  [tab |-> t, n |-> n, fn |-> fn, pc |-> pc, mounted |-> TRUE,
   user |-> Null, jwt |-> Null, item |-> Null, existing |-> {},
   items |-> {}, pm |-> "upi", order_number |-> 0, order_id |-> 0,
   id |-> 0, qty |-> 0, status |-> Null, admin |-> FALSE, role |-> Null]

\* call c going on as handler fn at its await pc on getUser, which is asked
\* with the token the client holds at that moment
Then(c, fn, pc) ==
  [NewCall(c.tab, c.n, fn, pc) EXCEPT !.mounted = c.mounted, !.jwt = session[c.tab]]

Finish(c) == calls' = calls \ {c}

Goto(c, d) == calls' = (calls \ {c}) \cup {d}

\* the user does not start more than MaxInFlight calls in one tab at a time
CanStart(t) == Cardinality(CallsOf(t, calls)) < MaxInFlight

Init ==
  /\ menu_items = SeedMenu
  /\ cart_items = {}
  /\ orders = {}
  /\ order_items = {}
  /\ profiles = SeedProfiles
  /\ next_cart_id = 1
  /\ next_order_id = 1
  /\ session = SeedSession
  /\ calls = {}
  /\ page = [t \in Tabs |-> "home"]
  /\ cartItems = [t \in Tabs |-> {}]
  /\ paymentMethod = [t \in Tabs |-> "upi"]
  /\ menuItems = [t \in Tabs |-> {}]
  /\ isAuthenticated = [t \in Tabs |-> FALSE]
  /\ ordersView = [t \in Tabs |-> <<>>]
  /\ isAdmin = [t \in Tabs |-> FALSE]
  /\ loading = [t \in Tabs |-> FALSE]
  /\ isLoading = [t \in Tabs |-> FALSE]
  /\ profile = [t \in Tabs |-> Null]
  /\ toast = Toast(Null, Null)
  /\ error = FALSE
  /\ adds = 0

\* ------------------------------------------------------------- navigation
\* the calls the useEffect of page p starts on mount, given the calls rest
\* that go on: Menu.tsx:35-38, Cart.tsx:30-32, Orders.tsx:33-35, Auth.tsx:19-21,
\* StudentDashboard.tsx:18-21, Menu.tsx:253-256, unnamed/part_001:14-16.  They
\* get numbers no call of the tab has, the returning one included; s is the
\* session the client holds when the page mounts.
MountCalls(t, p, rest, s) ==
  LET n1 == FreeSlot(t, calls \cup rest)
      n2 == FreeSlot(t, calls \cup rest \cup {NewCall(t, n1, Null, Null)})
  IN CASE p = "menu" ->
            { NewCall(t, n1, "checkAuth", "getCurrentSession"),
              [NewCall(t, n2, "loadMenuItems", "select") EXCEPT !.jwt = s] }
       [] p = "cart" -> { NewCall(t, n1, "checkAuthAndLoadCart", "getCurrentSession") }
       [] p = "orders" -> { NewCall(t, n1, "checkAuthAndLoadOrders", "getCurrentSession") }
       [] p = "auth" -> { NewCall(t, n1, "checkSession", "getCurrentSession") }
       [] p = "student" ->
            { NewCall(t, n1, "StudentDashboard.checkAuth", "getCurrentSession"),
              [NewCall(t, n2, "loadDashboardData", "getUser") EXCEPT !.jwt = s] }
       [] p = "admin" ->
            { NewCall(t, n1, "AdminDashboard.checkAuth", "getCurrentSession"),
              [NewCall(t, n2, "loadStats", "orders") EXCEPT !.jwt = s] }
       [] p = "profile" -> { NewCall(t, n1, "checkAuthAndLoadProfile", "getCurrentSession") }
       [] OTHER -> {}

\* the pages whose component has a state `loading`, TRUE at mount (Menu.tsx:30,
\* Cart.tsx:27, Orders.tsx:30, StudentDashboard.tsx:16, Menu.tsx:251,
\* unnamed/part_001:12)
PagesLoading == {"menu", "cart", "orders", "student", "admin", "profile"}

\* the calls of the tab's page outlive its unmounting
Unmounted(t, S) ==
  { IF c.tab = t THEN [c EXCEPT !.mounted = FALSE] ELSE c : c \in S }

\* navigate(p) with the calls rest going on: a change of route unmounts the
\* page shown and mounts p's component with its initial React state; navigate
\* to the route shown mounts nothing.  s is the session the client holds then.
RouteWith(t, p, rest, s) ==
  IF page[t] = p
  THEN /\ calls' = rest
       /\ UNCHANGED pageVars
  ELSE /\ calls' = Unmounted(t, rest) \cup MountCalls(t, p, Unmounted(t, rest), s)
       /\ page' = [page EXCEPT ![t] = p]
       /\ cartItems' = [cartItems EXCEPT ![t] = {}]
       /\ paymentMethod' = [paymentMethod EXCEPT ![t] = "upi"]
       /\ menuItems' = [menuItems EXCEPT ![t] = {}]
       /\ isAuthenticated' = [isAuthenticated EXCEPT ![t] = FALSE]
       /\ ordersView' = [ordersView EXCEPT ![t] = <<>>]
       /\ isAdmin' = [isAdmin EXCEPT ![t] = FALSE]
       /\ loading' = [loading EXCEPT ![t] = (p \in PagesLoading)]
       /\ isLoading' = [isLoading EXCEPT ![t] = FALSE]
       /\ profile' = [profile EXCEPT ![t] = Null]

\* navigate(p) in a step that leaves the session as it is
Route(t, p, rest) == RouteWith(t, p, rest, session[t])

\* the user goes to another page (a link, a button, the address bar)
Navigate(t, p) ==
  /\ p # page[t]
  /\ CanStart(t)
  /\ Route(t, p, calls)
  /\ UNCHANGED <<dbVars, session, toast, error, adds>>

\* ---------------------------------------------------------------- lib/auth.ts
\* getCurrentProfile's await on getUser (auth.ts:65-67), in checkAuthAndLoadOrders,
\* in the dashboards' checkAuth and in the profile page's
\* checkAuthAndLoadProfile; ok: whether the request is answered
ProfileCallers ==
  {"checkAuthAndLoadOrders", "StudentDashboard.checkAuth", "AdminDashboard.checkAuth",
   "checkAuthAndLoadProfile"}

\* supabase.auth.getUser(), asked with the token jwt the client held at the
\* call: the user of that token, none without a token or without an answer
GetUser(jwt, ok) == IF ok THEN jwt ELSE Null

\* the role a read of the profiles row of user u gives the caller jwt: none
\* when the request fails, the policy hides the row or there is no row
ProfileRead(jwt, u, ok) == IF ok /\ RlsProfilesSelect(jwt, u) THEN Role(u) ELSE Null

\* what a call does once getCurrentProfile has returned profile (a role, or
\* Null): Orders.tsx:44-47, StudentDashboard.tsx:30-36, Menu.tsx:265-271,
\* unnamed/part_001:25-27
AfterProfile(c, role) ==
  LET t == c.tab
  IN CASE c.fn = "checkAuthAndLoadOrders" ->
            /\ IF c.mounted
               THEN isAdmin' = [isAdmin EXCEPT ![t] = (role = "admin")]
               ELSE UNCHANGED isAdmin
            /\ Goto(c, [Then(c, "loadOrders", "getUser") EXCEPT !.admin = (role = "admin")])
            /\ UNCHANGED <<page, cartItems, paymentMethod, menuItems, isAuthenticated, ordersView,
                           loading, isLoading, profile>>
       [] c.fn \in {"StudentDashboard.checkAuth", "AdminDashboard.checkAuth"} ->
            LET own == IF c.fn = "StudentDashboard.checkAuth" THEN "student" ELSE "admin"
                other == IF c.fn = "StudentDashboard.checkAuth" THEN "admin" ELSE "student"
            IN IF role # Null /\ role # own
               THEN Route(t, other, calls \ {c})
               ELSE /\ Finish(c)
                    /\ profile' = IF c.mounted /\ role # Null
                                  THEN [profile EXCEPT ![t] = role]
                                  ELSE profile
                    /\ UNCHANGED <<page, cartItems, paymentMethod, menuItems, isAuthenticated,
                                   ordersView, isAdmin, loading, isLoading>>
       [] c.fn = "checkAuthAndLoadProfile" ->
            /\ Finish(c)
            /\ profile' = IF c.mounted THEN [profile EXCEPT ![t] = role] ELSE profile
            /\ loading' = IF c.mounted THEN [loading EXCEPT ![t] = FALSE] ELSE loading
            /\ UNCHANGED <<page, cartItems, paymentMethod, menuItems, isAuthenticated,
                           ordersView, isAdmin, isLoading>>

getCurrentProfileUser(c, ok) ==
  /\ c.fn \in ProfileCallers /\ c.pc = "getCurrentProfile.getUser"
  /\ LET user == GetUser(c.jwt, ok)
     IN /\ IF user = Null
           THEN AfterProfile(c, Null)
           ELSE /\ Goto(c, [c EXCEPT !.pc = "getCurrentProfile.select",
                                     !.user = user, !.jwt = session[c.tab]])
                /\ UNCHANGED pageVars
        /\ error' = (user = Null)
  /\ UNCHANGED <<dbVars, session, toast, adds>>

\* getCurrentProfile's read of profiles (auth.ts:69-76): its error is dropped
\* and the profile is then null
getCurrentProfile(c, ok) ==
  /\ c.fn \in ProfileCallers /\ c.pc = "getCurrentProfile.select"
  /\ AfterProfile(c, ProfileRead(c.jwt, c.user, ok))
  /\ error' = (ProfileRead(c.jwt, c.user, ok) = Null)
  /\ UNCHANGED <<dbVars, session, toast, adds>>

\* checkAuth of the dashboards and checkAuthAndLoadProfile of the profile page
\* up to getCurrentProfile (StudentDashboard.tsx:23-28, Menu.tsx:258-263,
\* unnamed/part_001:18-23)
dashboardCheckAuth(c) ==
  /\ c.fn \in {"StudentDashboard.checkAuth", "AdminDashboard.checkAuth", "checkAuthAndLoadProfile"}
  /\ c.pc = "getCurrentSession"
  /\ IF session[c.tab] = Null
     THEN Route(c.tab, "auth", calls \ {c})
     ELSE /\ Goto(c, [c EXCEPT !.pc = "getCurrentProfile.getUser", !.jwt = session[c.tab]])
          /\ UNCHANGED pageVars
  /\ error' = FALSE
  /\ UNCHANGED <<dbVars, session, toast, adds>>

\* loadDashboardData (StudentDashboard.tsx:39-60): its getUser answered; without
\* a user it returns and `loading` stays
loadDashboardDataUser(c, ok) ==
  /\ c.fn = "loadDashboardData" /\ c.pc = "getUser"
  /\ LET user == GetUser(c.jwt, ok)
     IN /\ IF user = Null
           THEN Finish(c)
           ELSE Goto(c, [c EXCEPT !.pc = "cart_items", !.user = user, !.jwt = session[c.tab]])
        /\ error' = (user = Null)
  /\ UNCHANGED <<dbVars, session, pageVars, toast, adds>>

\* its count of the cart answered (the count is only displayed and an error is
\* not looked at); the read of the recent orders is sent
loadDashboardDataCart(c, ok) ==
  /\ c.fn = "loadDashboardData" /\ c.pc = "cart_items"
  /\ Goto(c, [c EXCEPT !.pc = "orders", !.jwt = session[c.tab]])
  /\ error' = ~ ok
  /\ UNCHANGED <<dbVars, session, pageVars, toast, adds>>

\* the recent orders answered (displayed only); the page leaves its spinner
loadDashboardDataOrders(c, ok) ==
  /\ c.fn = "loadDashboardData" /\ c.pc = "orders"
  /\ loading' = IF c.mounted THEN [loading EXCEPT ![c.tab] = FALSE] ELSE loading
  /\ Finish(c)
  /\ error' = ~ ok
  /\ UNCHANGED <<dbVars, session, page, cartItems, paymentMethod, menuItems, isAuthenticated,
                 ordersView, isAdmin, isLoading, profile, toast, adds>>

\* loadStats of the admin dashboard (Menu.tsx:273-297): its read of orders
\* answered (the figures are only displayed); the read of menu_items is sent
loadStatsOrders(c, ok) ==
  /\ c.fn = "loadStats" /\ c.pc = "orders"
  /\ Goto(c, [c EXCEPT !.pc = "menu_items", !.jwt = session[c.tab]])
  /\ error' = ~ ok
  /\ UNCHANGED <<dbVars, session, pageVars, toast, adds>>

loadStatsMenu(c, ok) ==
  /\ c.fn = "loadStats" /\ c.pc = "menu_items"
  /\ loading' = IF c.mounted THEN [loading EXCEPT ![c.tab] = FALSE] ELSE loading
  /\ Finish(c)
  /\ error' = ~ ok
  /\ UNCHANGED <<dbVars, session, page, cartItems, paymentMethod, menuItems, isAuthenticated,
                 ordersView, isAdmin, isLoading, profile, toast, adds>>

\* handleLogout of the dashboards and of the profile page
\* (StudentDashboard.tsx:62-66, Menu.tsx:299-303, unnamed/part_001:30-34) up to
\* its await.  The Sign Out button is rendered once `loading` is false
\* (StudentDashboard.tsx:68, Menu.tsx:305, unnamed/part_001:36) and, on the
\* profile page, with a profile (unnamed/part_001:47).
handleLogout(t) ==
  /\ page[t] \in {"student", "admin", "profile"}
  /\ ~ loading[t]
  /\ page[t] = "profile" => profile[t] # Null
  /\ CanStart(t)
  /\ calls' = calls \cup {NewCall(t, FreeSlot(t, calls), "handleLogout", "signOut")}
  /\ UNCHANGED <<dbVars, session, pageVars, toast, error, adds>>

\* signOut answered: the session is gone when the request went through and is
\* kept when it did not; handleLogout does not look at the error
handleLogoutSignOut(c, ok) ==
  /\ c.fn = "handleLogout" /\ c.pc = "signOut"
  /\ session' = IF ok THEN [session EXCEPT ![c.tab] = Null] ELSE session
  /\ toast' = Toast(c.tab, "Signed out successfully")
  /\ RouteWith(c.tab, "home", calls \ {c}, IF ok THEN Null ELSE session[c.tab])
  /\ error' = ~ ok
  /\ UNCHANGED <<dbVars, adds>>

\* ---------------------------------------------------------------- Auth.tsx
\* checkSession up to the read of profiles (Auth.tsx:22-29)
checkSession(c) ==
  /\ c.fn = "checkSession" /\ c.pc = "getCurrentSession"
  /\ IF session[c.tab] = Null
     THEN Finish(c)
     ELSE Goto(c, [c EXCEPT !.pc = "select", !.user = session[c.tab], !.jwt = session[c.tab]])
  /\ error' = FALSE
  /\ UNCHANGED <<dbVars, session, pageVars, toast, adds>>

\* Auth.tsx:31-35 and 62-66: the dashboard of the role read, the student's when
\* the read gave nothing
DashboardOf(role) == IF role = "admin" THEN "admin" ELSE "student"

checkSessionProfile(c, ok) ==
  /\ c.fn = "checkSession" /\ c.pc = "select"
  /\ Route(c.tab, DashboardOf(ProfileRead(c.jwt, c.user, ok)), calls \ {c})
  /\ error' = (ProfileRead(c.jwt, c.user, ok) = Null)
  /\ UNCHANGED <<dbVars, session, toast, adds>>

\* who has an account: handle_new_user gave each a profiles row (Auth.tsx:424-441)
Registered == DOMAIN profiles

\* handleSignIn (Auth.tsx:40-73) with the credentials of user u, up to its
\* await on signIn; the submit buttons are disabled while isLoading
\* (Auth.tsx:162, 266)
handleSignIn(t, u) ==
  /\ page[t] = "auth"
  /\ ~ isLoading[t]
  /\ CanStart(t)
  /\ isLoading' = [isLoading EXCEPT ![t] = TRUE]
  /\ calls' = calls \cup {[NewCall(t, FreeSlot(t, calls), "handleSignIn", "signIn") EXCEPT !.user = u]}
  /\ UNCHANGED <<dbVars, session, page, cartItems, paymentMethod, menuItems, isAuthenticated,
                 ordersView, isAdmin, loading, profile, toast, error, adds>>

\* signIn answered: on success the client holds the session of the user
handleSignInAnswer(c, ok) ==
  /\ c.fn = "handleSignIn" /\ c.pc = "signIn"
  /\ IF ok /\ c.user \in Registered
     THEN /\ session' = [session EXCEPT ![c.tab] = c.user]
          /\ Goto(c, [c EXCEPT !.pc = "select", !.jwt = c.user])
          /\ UNCHANGED <<toast, isLoading>>
     ELSE /\ toast' = Toast(c.tab, "error.message")
          /\ isLoading' = IF c.mounted THEN [isLoading EXCEPT ![c.tab] = FALSE] ELSE isLoading
          /\ Finish(c)
          /\ UNCHANGED session
  /\ error' = ~ (ok /\ c.user \in Registered)
  /\ UNCHANGED <<dbVars, page, cartItems, paymentMethod, menuItems, isAuthenticated,
                 ordersView, isAdmin, loading, profile, adds>>

\* the read of the role answered (Auth.tsx:56-71); the setIsLoading(false) after
\* navigate finds the Auth page unmounted
handleSignInProfile(c, ok) ==
  /\ c.fn = "handleSignIn" /\ c.pc = "select"
  /\ toast' = Toast(c.tab, "Signed in successfully!")
  /\ Route(c.tab, DashboardOf(ProfileRead(c.jwt, c.user, ok)), calls \ {c})
  /\ error' = (ProfileRead(c.jwt, c.user, ok) = Null)
  /\ UNCHANGED <<dbVars, session, adds>>

\* handleSignUp (Auth.tsx:75-112) for user u with the role chosen on the form
\* (Auth.tsx:177-178), up to its await on signUp
handleSignUp(t, u, role) ==
  /\ page[t] = "auth"
  /\ ~ isLoading[t]
  /\ role \in Roles
  /\ CanStart(t)
  /\ isLoading' = [isLoading EXCEPT ![t] = TRUE]
  /\ calls' = calls \cup
       {[NewCall(t, FreeSlot(t, calls), "handleSignUp", "signUp") EXCEPT !.user = u, !.role = role]}
  /\ UNCHANGED <<dbVars, session, page, cartItems, paymentMethod, menuItems, isAuthenticated,
                 ordersView, isAdmin, loading, profile, toast, error, adds>>

\* signUp answered (auth.ts:20-43): for somebody not registered yet the trigger
\* handle_new_user inserts the profiles row with the role of options.data
\* (Auth.tsx:424-436), the client holds the new user's session and goes to the
\* dashboard of the role chosen; else the error is shown
handleSignUpAnswer(c, ok) ==
  /\ c.fn = "handleSignUp" /\ c.pc = "signUp"
  /\ IF ok /\ c.user \notin Registered
     THEN /\ profiles' = [u \in Registered \cup {c.user} |->
                            IF u = c.user THEN c.role ELSE profiles[u]]
          /\ session' = [session EXCEPT ![c.tab] = c.user]
          /\ toast' = Toast(c.tab, "Account created successfully!")
          /\ RouteWith(c.tab, DashboardOf(c.role), calls \ {c}, c.user)
     ELSE /\ toast' = Toast(c.tab, "error.message")
          /\ isLoading' = IF c.mounted THEN [isLoading EXCEPT ![c.tab] = FALSE] ELSE isLoading
          /\ Finish(c)
          /\ UNCHANGED <<profiles, session, page, cartItems, paymentMethod, menuItems,
                         isAuthenticated, ordersView, isAdmin, loading, profile>>
  /\ error' = ~ (ok /\ c.user \notin Registered)
  /\ UNCHANGED <<menu_items, cart_items, orders, order_items, next_cart_id, next_order_id, adds>>

\* ------------------------------------------------- requests sent directly
\* An update of the own profiles row, which its policy allows for every column
\* (Auth.tsx:375); the CHECK of Auth.tsx:288 keeps the role one of the two.  No
\* page sends it: it is a request to the REST endpoint with the user's token.
updateProfileRole(t, role) ==
  /\ session[t] # Null
  /\ role \in Roles
  /\ RlsProfilesUpdate(session[t], session[t])
  /\ profiles' = [profiles EXCEPT ![session[t]] = role]
  /\ UNCHANGED <<menu_items, cart_items, orders, order_items, next_cart_id, next_order_id,
                 tabVars, adds>>

\* an update of a menu_items row (no page sends it either); a caller the
\* policy of Auth.tsx:381 does not pass updates no row
UpdateMenuItemRow(table, caller, m, price, avail) ==
  IF RlsMenuUpdate(caller) /\ price >= 0
  THEN [table EXCEPT ![m] = [price |-> price, is_available |-> avail]]
  ELSE table

\* the same update carried on into the order lines of the menu item: a variant
\* that frozen order lines have to tell apart
updateMenuItemRepricing(t, m, price, avail) ==
  /\ menu_items' = UpdateMenuItemRow(menu_items, session[t], m, price, avail)
  /\ order_items' = { IF r.menu_item_id = m /\ RlsMenuUpdate(session[t])
                      THEN [r EXCEPT !.price_at_order = price, !.subtotal = price * r.quantity]
                      ELSE r : r \in order_items }
  /\ UNCHANGED <<cart_items, orders, profiles, next_cart_id, next_order_id, tabVars, adds>>

updateMenuItem(t, m, price, avail) ==
  /\ menu_items' = UpdateMenuItemRow(menu_items, session[t], m, price, avail)
  /\ UNCHANGED <<cart_items, orders, order_items, profiles, next_cart_id, next_order_id,
                 tabVars, adds>>

\* ---------------------------------------------------------------- Menu.tsx
\* checkAuth (Menu.tsx:44-47)
checkAuth(c) ==
  /\ c.fn = "checkAuth" /\ c.pc = "getCurrentSession"
  /\ IF c.mounted
     THEN isAuthenticated' = [isAuthenticated EXCEPT ![c.tab] = (session[c.tab] # Null)]
     ELSE UNCHANGED isAuthenticated
  /\ Finish(c)
  /\ error' = FALSE
  /\ UNCHANGED <<dbVars, session, page, cartItems, paymentMethod, menuItems, ordersView,
                 isAdmin, loading, isLoading, profile, toast, adds>>

\* loadMenuItems (Menu.tsx:49-65), its select answered; either way the page
\* leaves its spinner
loadMenuItems(c, ok) ==
  /\ c.fn = "loadMenuItems" /\ c.pc = "select"
  /\ IF ok
     THEN /\ IF c.mounted
             THEN menuItems' = [menuItems EXCEPT ![c.tab] =
                    { m \in Items : menu_items[m].is_available /\ RlsMenuSelect(c.jwt, menu_items[m]) }]
             ELSE UNCHANGED menuItems
          /\ UNCHANGED toast
     ELSE /\ toast' = Toast(c.tab, "Failed to load menu")
          /\ UNCHANGED menuItems
  /\ loading' = IF c.mounted THEN [loading EXCEPT ![c.tab] = FALSE] ELSE loading
  /\ Finish(c)
  /\ error' = ~ ok
  /\ UNCHANGED <<dbVars, session, page, cartItems, paymentMethod, isAuthenticated, ordersView,
                 isAdmin, isLoading, profile, adds>>

\* a click on Add of a listed item: handleAddToCart up to its await on getUser
\* (Menu.tsx:84-91)
handleAddToCart(t, m) ==
  /\ page[t] = "menu"
  /\ ~ loading[t]
  /\ m \in menuItems[t]
  /\ IF ~ isAuthenticated[t]
     THEN /\ toast' = Toast(t, "Please sign in to add items to cart")
          /\ Route(t, "auth", calls)
          /\ UNCHANGED adds
     ELSE /\ CanStart(t)
          /\ adds < MaxAdds
          /\ adds' = adds + 1
          /\ calls' = calls \cup
               {[NewCall(t, FreeSlot(t, calls), "handleAddToCart", "getUser")
                  EXCEPT !.item = m, !.jwt = session[t]]}
          /\ UNCHANGED <<pageVars, toast>>
  /\ UNCHANGED <<dbVars, session, error>>

\* getUser answered (Menu.tsx:91-92); the read of cart_items is sent
handleAddToCartUser(c, ok) ==
  /\ c.fn = "handleAddToCart" /\ c.pc = "getUser"
  /\ LET user == GetUser(c.jwt, ok)
     IN /\ IF user = Null
           THEN Finish(c)
           ELSE Goto(c, [c EXCEPT !.pc = "select", !.user = user, !.jwt = session[c.tab]])
        /\ error' = (user = Null)
  /\ UNCHANGED <<dbVars, session, pageVars, toast, adds>>

\* the read answered (Menu.tsx:95-100): its error is dropped, no row read then;
\* the update or the insert is sent
handleAddToCartRead(c, ok) ==
  /\ c.fn = "handleAddToCart" /\ c.pc = "select"
  /\ LET found == IF ok THEN ExistingItem(cart_items, c.jwt, c.user, c.item) ELSE {}
     IN /\ Goto(c, [c EXCEPT !.pc = "write", !.existing = found, !.jwt = session[c.tab]])
        /\ error' = (found = {})
  /\ UNCHANGED <<dbVars, session, pageVars, toast, adds>>

\* the rest of handleAddToCart (Menu.tsx:102-126): update of the row read, or
\* insert, answered
handleAddToCartWrite(c, ok) ==
  /\ c.fn = "handleAddToCart" /\ c.pc = "write"
  /\ LET row == [id |-> next_cart_id, student_id |-> c.user, menu_item_id |-> c.item,
                 quantity |-> 1]
     IN IF c.existing # {}
        THEN LET e == CHOOSE r \in c.existing : TRUE
             IN IF ok /\ e.quantity + 1 > 0
                THEN /\ cart_items' = UpdateCartQuantity(cart_items, c.jwt, e.id, e.quantity + 1)
                     /\ toast' = Toast(c.tab, "Added to cart!")
                     /\ error' = FALSE
                     /\ UNCHANGED next_cart_id
                ELSE /\ toast' = Toast(c.tab, "Failed to update cart")
                     /\ error' = TRUE
                     /\ UNCHANGED <<cart_items, next_cart_id>>
        ELSE IF ok /\ RlsCartInsert(c.jwt, row) /\ CartConstraints(cart_items, row)
             THEN /\ cart_items' = cart_items \cup {row}
                  /\ next_cart_id' = next_cart_id + 1
                  /\ toast' = Toast(c.tab, "Added to cart!")
                  /\ error' = FALSE
             ELSE /\ toast' = Toast(c.tab, "Failed to add to cart")
                  /\ error' = TRUE
                  /\ UNCHANGED <<cart_items, next_cart_id>>
  /\ Finish(c)
  /\ UNCHANGED <<menu_items, orders, order_items, profiles, next_order_id,
                 session, pageVars, adds>>

\* ---------------------------------------------------------------- Cart.tsx
\* checkAuthAndLoadCart (Cart.tsx:34-42): to /auth without a session, else on
\* into loadCart up to its await on getUser
checkAuthAndLoadCart(c) ==
  /\ c.fn = "checkAuthAndLoadCart" /\ c.pc = "getCurrentSession"
  /\ IF session[c.tab] = Null
     THEN Route(c.tab, "auth", calls \ {c})
     ELSE Goto(c, Then(c, "loadCart", "getUser")) /\ UNCHANGED pageVars
  /\ error' = FALSE
  /\ UNCHANGED <<dbVars, session, toast, adds>>

\* loadCart's getUser answered (Cart.tsx:45-46); the select is sent
loadCartUser(c, ok) ==
  /\ c.fn = "loadCart" /\ c.pc = "getUser"
  /\ LET user == GetUser(c.jwt, ok)
     IN /\ IF user = Null
           THEN Finish(c)
           ELSE Goto(c, [c EXCEPT !.pc = "select", !.user = user, !.jwt = session[c.tab]])
        /\ error' = (user = Null)
  /\ UNCHANGED <<dbVars, session, pageVars, toast, adds>>

\* loadCart's select answered (Cart.tsx:48-70)
loadCart(c, ok) ==
  /\ c.fn = "loadCart" /\ c.pc = "select"
  /\ IF ok
     THEN /\ IF c.mounted
             THEN cartItems' = [cartItems EXCEPT ![c.tab] = CartQuery(c.jwt, c.user)]
             ELSE UNCHANGED cartItems
          /\ UNCHANGED toast
     ELSE /\ toast' = Toast(c.tab, "Failed to load cart")
          /\ UNCHANGED cartItems
  /\ loading' = IF c.mounted THEN [loading EXCEPT ![c.tab] = FALSE] ELSE loading
  /\ Finish(c)
  /\ error' = ~ ok
  /\ UNCHANGED <<dbVars, session, page, paymentMethod, menuItems, isAuthenticated, ordersView,
                 isAdmin, isLoading, profile, adds>>

\* updateQuantity taking a quantity below 1 as a removal: a variant the
\* rejection of such a quantity has to tell apart
updateQuantityRemoving(t, itemId, newQuantity) ==
  /\ page[t] = "cart"
  /\ ~ loading[t]
  /\ CanStart(t)
  /\ calls' = calls \cup
       {[NewCall(t, FreeSlot(t, calls),
                 IF newQuantity < 1 THEN "removeItem" ELSE "updateQuantity",
                 IF newQuantity < 1 THEN "delete" ELSE "update")
          EXCEPT !.id = itemId, !.qty = newQuantity, !.jwt = session[t]]}
  /\ UNCHANGED <<dbVars, session, pageVars, toast, error, adds>>

\* updateQuantity up to its await (Cart.tsx:73-79): nothing for a quantity
\* below 1, else the update is sent
updateQuantity(t, itemId, newQuantity) ==
  /\ page[t] = "cart"
  /\ ~ loading[t]
  /\ IF newQuantity < 1
     THEN UNCHANGED calls
     ELSE /\ CanStart(t)
          /\ calls' = calls \cup
               {[NewCall(t, FreeSlot(t, calls), "updateQuantity", "update")
                  EXCEPT !.id = itemId, !.qty = newQuantity, !.jwt = session[t]]}
  /\ UNCHANGED <<dbVars, session, pageVars, toast, error, adds>>

\* the update answered (Cart.tsx:81-86); on success on into loadCart.  The
\* CHECK (quantity > 0) of Auth.tsx:360 is evaluated on the rows the update
\* reaches: an update that reaches none has no error.
updateQuantityUpdate(c, ok) ==
  /\ c.fn = "updateQuantity" /\ c.pc = "update"
  /\ LET reached == { r \in cart_items : r.id = c.id /\ RlsCartUpdate(c.jwt, r) }
         fails == ~ ok \/ (reached # {} /\ ~ (c.qty > 0))
     IN /\ IF ~ fails
           THEN /\ cart_items' = UpdateCartQuantity(cart_items, c.jwt, c.id, c.qty)
                /\ Goto(c, Then(c, "loadCart", "getUser"))
                /\ UNCHANGED toast
           ELSE /\ toast' = Toast(c.tab, "Failed to update quantity")
                /\ Finish(c)
                /\ UNCHANGED cart_items
        /\ error' = fails
  /\ UNCHANGED <<menu_items, orders, order_items, profiles, next_cart_id, next_order_id,
                 session, pageVars, adds>>

\* the - and + buttons of a cart line (Cart.tsx:241-255)
ClickQuantity(t) ==
  \E it \in cartItems[t] : \E q \in {it.quantity - 1, it.quantity + 1} :
    /\ q <= MaxQty
    /\ updateQuantity(t, it.id, q)

\* removeItem up to its await (Cart.tsx:89-93)
removeItem(t, itemId) ==
  /\ page[t] = "cart"
  /\ ~ loading[t]
  /\ CanStart(t)
  /\ calls' = calls \cup
       {[NewCall(t, FreeSlot(t, calls), "removeItem", "delete")
          EXCEPT !.id = itemId, !.jwt = session[t]]}
  /\ UNCHANGED <<dbVars, session, pageVars, toast, error, adds>>

\* the delete answered (Cart.tsx:95-101); on success on into loadCart
removeItemDelete(c, ok) ==
  /\ c.fn = "removeItem" /\ c.pc = "delete"
  /\ IF ok
     THEN /\ cart_items' = DeleteCartById(cart_items, c.jwt, c.id)
          /\ toast' = Toast(c.tab, "Item removed from cart")
          /\ Goto(c, Then(c, "loadCart", "getUser"))
     ELSE /\ toast' = Toast(c.tab, "Failed to remove item")
          /\ Finish(c)
          /\ UNCHANGED cart_items
  /\ error' = ~ ok
  /\ UNCHANGED <<menu_items, orders, order_items, profiles, next_cart_id, next_order_id,
                 session, pageVars, adds>>

\* the bin button of a cart line (Cart.tsx:229-235)
ClickRemove(t) == \E it \in cartItems[t] : removeItem(t, it.id)

\* the Select of Cart.tsx:289-298, rendered with the order summary
setPaymentMethod(t, pm) ==
  /\ page[t] = "cart"
  /\ ~ loading[t]
  /\ cartItems[t] # {}
  /\ pm \in PaymentMethods
  /\ paymentMethod' = [paymentMethod EXCEPT ![t] = pm]
  /\ UNCHANGED <<dbVars, session, calls, page, cartItems, menuItems, isAuthenticated,
                 ordersView, isAdmin, loading, isLoading, profile, toast, error, adds>>

\* the checkout calls that have not come to their insert into orders yet
InsertsAhead ==
  { c \in calls : c.fn = "handleCheckout" /\ c.pc \in {"getUser", "orders"} }

\* handleCheckout up to its await on getUser (Cart.tsx:110-111); the call keeps
\* the cartItems and paymentMethod of the render it was made in
handleCheckout(t) ==
  /\ page[t] = "cart"
  /\ ~ loading[t]
  /\ CanStart(t)
  /\ next_order_id + Cardinality(InsertsAhead) <= MaxOrders
  /\ calls' = calls \cup
       {[NewCall(t, FreeSlot(t, calls), "handleCheckout", "getUser")
          EXCEPT !.items = cartItems[t], !.pm = paymentMethod[t], !.jwt = session[t]]}
  /\ UNCHANGED <<dbVars, session, pageVars, toast, error, adds>>

\* the Place Order button is rendered only for a non-empty cartItems (Cart.tsx:202-208)
ClickPlaceOrder(t) ==
  /\ cartItems[t] # {}
  /\ handleCheckout(t)

\* the order numbers in use: of the orders placed and of the inserts in flight
NumbersInUse ==
  { o.order_number : o \in orders }
    \cup { c.order_number : c \in { d \in calls : d.fn = "handleCheckout" /\ d.pc = "orders" } }

\* getUser answered (Cart.tsx:112-136): the empty test, the totals, the order
\* number from Date.now() = ms; the insert into orders is sent
handleCheckoutUser(c, ok, ms) ==
  /\ c.fn = "handleCheckout" /\ c.pc = "getUser"
  /\ LET user == GetUser(c.jwt, ok)
     IN /\ IF user = Null
           THEN Finish(c) /\ UNCHANGED toast
           ELSE IF c.items = {}
                THEN /\ toast' = Toast(c.tab, "Your cart is empty")
                     /\ Finish(c)
                ELSE /\ Goto(c, [c EXCEPT !.pc = "orders", !.user = user, !.jwt = session[c.tab],
                                          !.order_number = OrderNumber(ms)])
                     /\ UNCHANGED toast
        /\ error' = (user = Null)
  /\ UNCHANGED <<dbVars, session, pageVars, adds>>

\* the insert into orders answered (Cart.tsx:123-141); the insert into
\* order_items is sent
handleCheckoutOrder(c, ok) ==
  /\ c.fn = "handleCheckout" /\ c.pc = "orders"
  /\ LET row == OrderRow(next_order_id, c.user, c.items, c.order_number, c.pm)
     IN IF /\ ok
           /\ RlsOrdersInsert(c.jwt, row)
           /\ OrdersConstraints(orders, row)
           /\ RlsOrdersSelect(c.jwt, row)
        THEN /\ orders' = orders \cup {row}
             /\ next_order_id' = next_order_id + 1
             /\ Goto(c, [c EXCEPT !.pc = "order_items", !.order_id = row.id,
                                  !.jwt = session[c.tab]])
             /\ error' = FALSE
             /\ UNCHANGED toast
        ELSE /\ toast' = Toast(c.tab, "Failed to create order")
             /\ Finish(c)
             /\ error' = TRUE
             /\ UNCHANGED <<orders, next_order_id>>
  /\ UNCHANGED <<menu_items, cart_items, order_items, profiles, next_cart_id,
                 session, pageVars, adds>>

\* the order-items step going on to the clear also when its insert failed: a
\* variant that stopping on a write failure has to tell apart
handleCheckoutItemsGoingOn(c, ok) ==
  /\ c.fn = "handleCheckout" /\ c.pc = "order_items"
  /\ LET rows == OrderItemRows(c.order_id, c.items)
     IN IF /\ ok
           /\ \A r \in rows : RlsOrderItemsInsert(c.jwt, r, orders) /\ OrderItemsConstraints(r)
        THEN /\ order_items' = order_items \cup rows
             /\ error' = FALSE
             /\ UNCHANGED toast
        ELSE /\ toast' = Toast(c.tab, "Failed to create order items")
             /\ error' = TRUE
             /\ UNCHANGED order_items
  /\ Goto(c, [c EXCEPT !.pc = "cart_items", !.jwt = session[c.tab]])
  /\ UNCHANGED <<menu_items, cart_items, orders, profiles, next_cart_id, next_order_id,
                 session, pageVars, adds>>

\* the insert into order_items answered (Cart.tsx:143-159); the clear is sent
handleCheckoutItems(c, ok) ==
  /\ c.fn = "handleCheckout" /\ c.pc = "order_items"
  /\ LET rows == OrderItemRows(c.order_id, c.items)
     IN IF /\ ok
           /\ \A r \in rows : RlsOrderItemsInsert(c.jwt, r, orders) /\ OrderItemsConstraints(r)
        THEN /\ order_items' = order_items \cup rows
             /\ Goto(c, [c EXCEPT !.pc = "cart_items", !.jwt = session[c.tab]])
             /\ error' = FALSE
             /\ UNCHANGED toast
        ELSE /\ toast' = Toast(c.tab, "Failed to create order items")
             /\ Finish(c)
             /\ error' = TRUE
             /\ UNCHANGED order_items
  /\ UNCHANGED <<menu_items, cart_items, orders, profiles, next_cart_id, next_order_id,
                 session, pageVars, adds>>

\* the clear answered (Cart.tsx:161-172): its failure is only logged; the toast,
\* the route change to /orders
handleCheckoutClear(c, ok) ==
  /\ c.fn = "handleCheckout" /\ c.pc = "cart_items"
  /\ IF ok
     THEN cart_items' = DeleteCartOfStudent(cart_items, c.jwt, c.user)
     ELSE UNCHANGED cart_items
  /\ toast' = Toast(c.tab, "Order placed successfully!")
  /\ Route(c.tab, "orders", calls \ {c})
  /\ error' = ~ ok
  /\ UNCHANGED <<menu_items, orders, order_items, profiles, next_cart_id, next_order_id,
                 session, adds>>

\* -------------------------------------------------------------- Orders.tsx
\* checkAuthAndLoadOrders up to getCurrentProfile (Orders.tsx:37-43)
checkAuthAndLoadOrders(c) ==
  /\ c.fn = "checkAuthAndLoadOrders" /\ c.pc = "getCurrentSession"
  /\ IF session[c.tab] = Null
     THEN Route(c.tab, "auth", calls \ {c})
     ELSE /\ Goto(c, [c EXCEPT !.pc = "getCurrentProfile.getUser", !.jwt = session[c.tab]])
          /\ UNCHANGED pageVars
  /\ error' = FALSE
  /\ UNCHANGED <<dbVars, session, toast, adds>>

\* loadOrders' getUser answered (Orders.tsx:51-52); the select is sent
loadOrdersUser(c, ok) ==
  /\ c.fn = "loadOrders" /\ c.pc = "getUser"
  /\ LET user == GetUser(c.jwt, ok)
     IN /\ IF user = Null
           THEN Finish(c)
           ELSE Goto(c, [c EXCEPT !.pc = "select", !.user = user, !.jwt = session[c.tab]])
        /\ error' = (user = Null)
  /\ UNCHANGED <<dbVars, session, pageVars, toast, adds>>

\* loadOrders' select answered (Orders.tsx:54-86)
loadOrders(c, ok) ==
  /\ c.fn = "loadOrders" /\ c.pc = "select"
  /\ IF ok
     THEN /\ IF c.mounted
             THEN \E v \in OrdersQuery(c.jwt, c.user, c.admin) :
                    ordersView' = [ordersView EXCEPT ![c.tab] = v]
             ELSE UNCHANGED ordersView
          /\ UNCHANGED toast
     ELSE /\ toast' = Toast(c.tab, "Failed to load orders")
          /\ UNCHANGED ordersView
  /\ loading' = IF c.mounted THEN [loading EXCEPT ![c.tab] = FALSE] ELSE loading
  /\ Finish(c)
  /\ error' = ~ ok
  /\ UNCHANGED <<dbVars, session, page, cartItems, paymentMethod, menuItems, isAuthenticated,
                 isAdmin, isLoading, profile, adds>>

\* updateOrderStatus up to its await (Orders.tsx:89-93); the call keeps the
\* isAdmin of the render it was made in
updateOrderStatus(t, orderId, newStatus) ==
  /\ page[t] = "orders"
  /\ ~ loading[t]
  /\ CanStart(t)
  /\ calls' = calls \cup
       {[NewCall(t, FreeSlot(t, calls), "updateOrderStatus", "update")
          EXCEPT !.id = orderId, !.status = newStatus, !.admin = isAdmin[t],
                 !.jwt = session[t]]}
  /\ UNCHANGED <<dbVars, session, pageVars, toast, error, adds>>

\* the update answered (Orders.tsx:95-101); on success on into loadOrders(isAdmin).
\* The CHECK on status (Auth.tsx:318) is evaluated on the rows the update
\* reaches: an update that reaches none (not an admin's, or no such order) has
\* no error.
updateOrderStatusUpdate(c, ok) ==
  /\ c.fn = "updateOrderStatus" /\ c.pc = "update"
  /\ LET reached == { o \in orders : o.id = c.id /\ RlsOrdersUpdate(c.jwt, o) }
         fails == ~ ok \/ (reached # {} /\ c.status \notin Statuses)
     IN /\ IF ~ fails
           THEN /\ orders' = UpdateOrderStatusRows(orders, c.jwt, c.id, c.status)
                /\ toast' = Toast(c.tab, "Order status updated")
                /\ Goto(c, [Then(c, "loadOrders", "getUser") EXCEPT !.admin = c.admin])
           ELSE /\ toast' = Toast(c.tab, "Failed to update order status")
                /\ Finish(c)
                /\ UNCHANGED orders
        /\ error' = fails
  /\ UNCHANGED <<menu_items, cart_items, order_items, profiles, next_cart_id, next_order_id,
                 session, pageVars, adds>>

\* a click on one of the buttons the page renders for a listed order
ClickStatus(t) ==
  \E i \in 1..Len(ordersView[t]) :
    \E to \in Offered(isAdmin[t], ordersView[t][i].status) :
      updateOrderStatus(t, ordersView[t][i].id, to)

\* ----------------------------------------------------------- specifications
\* a user who waits for the tab's calls to end before the next click
Settled(t) == CallsOf(t, calls) = {}

\* The student's side: one student on two clients, each on the menu or the
\* cart, both adding items and placing orders, waiting for each call to end.
\* Reads are answered; each write of a checkout is carried out or fails.
ShopOpens == { <<t, p>> : t \in {"t1", "t2"}, p \in {"menu", "cart"} }

Next ==
  \/ \E o \in ShopOpens : Settled(o[1]) /\ Navigate(o[1], o[2])
  \/ \E c \in calls : checkAuth(c)
  \/ \E c \in calls : loadMenuItems(c, TRUE)
  \/ \E t \in Tabs, m \in Items : Settled(t) /\ handleAddToCart(t, m)
  \/ \E c \in calls : handleAddToCartUser(c, TRUE)
  \/ \E c \in calls : handleAddToCartRead(c, TRUE)
  \/ \E c \in calls : handleAddToCartWrite(c, TRUE)
  \/ \E c \in calls : checkAuthAndLoadCart(c)
  \/ \E c \in calls : loadCartUser(c, TRUE)
  \/ \E c \in calls : loadCart(c, TRUE)
  \/ \E t \in Tabs : Settled(t) /\ ClickPlaceOrder(t)
  \/ \E c \in calls, ms \in ClockReadings(NumbersInUse) : handleCheckoutUser(c, TRUE, ms)
  \/ \E c \in calls, ok \in BOOLEAN : handleCheckoutOrder(c, ok)
  \/ \E c \in calls, ok \in BOOLEAN : handleCheckoutItems(c, ok)
  \/ \E c \in calls, ok \in BOOLEAN : handleCheckoutClear(c, ok)
  \/ \E c \in calls : checkAuthAndLoadOrders(c)
  \/ \E c \in calls : getCurrentProfileUser(c, TRUE)
  \/ \E c \in calls : getCurrentProfile(c, TRUE)
  \/ \E c \in calls : loadOrdersUser(c, TRUE)
  \/ \E c \in calls : loadOrders(c, TRUE)

Spec == Init /\ [][Next]_vars

\* The staff's side: the student has placed two orders (one per menu item, the
\* cart cleared after each), and the admin works on them from two clients,
\* waiting for each call to end.
CartLine(id, m, q) ==
  [id |-> id, quantity |-> q, menu_item |-> [id |-> m, price |-> SeedMenu[m].price]]

PlacedOrders ==
  { OrderRow(1, "s1", {CartLine(1, "m1", 1)}, 0, "upi"),
    OrderRow(2, "s1", {CartLine(2, "m2", 1)}, 1, "upi") }

PlacedOrderItems ==
  OrderItemRows(1, {CartLine(1, "m1", 1)}) \cup OrderItemRows(2, {CartLine(2, "m2", 1)})

InitKitchen ==
  /\ menu_items = SeedMenu
  /\ cart_items = {}
  /\ orders = PlacedOrders
  /\ order_items = PlacedOrderItems
  /\ profiles = SeedProfiles
  /\ next_cart_id = 3
  /\ next_order_id = 3
  /\ session = SeedSession
  /\ calls = {}
  /\ page = [t \in Tabs |-> "home"]
  /\ cartItems = [t \in Tabs |-> {}]
  /\ paymentMethod = [t \in Tabs |-> "upi"]
  /\ menuItems = [t \in Tabs |-> {}]
  /\ isAuthenticated = [t \in Tabs |-> FALSE]
  /\ ordersView = [t \in Tabs |-> <<>>]
  /\ isAdmin = [t \in Tabs |-> FALSE]
  /\ loading = [t \in Tabs |-> FALSE]
  /\ isLoading = [t \in Tabs |-> FALSE]
  /\ profile = [t \in Tabs |-> Null]
  /\ toast = Toast(Null, Null)
  /\ error = FALSE
  /\ adds = 2

NextKitchen ==
  \/ \E t \in {"t3", "t4"} : Settled(t) /\ Navigate(t, "orders")
  \/ \E c \in calls : checkAuthAndLoadOrders(c)
  \/ \E c \in calls : getCurrentProfileUser(c, TRUE)
  \/ \E c \in calls : getCurrentProfile(c, TRUE)
  \/ \E c \in calls : loadOrdersUser(c, TRUE)
  \/ \E c \in calls : loadOrders(c, TRUE)
  \/ \E t \in Tabs : Settled(t) /\ ClickStatus(t)
  \/ \E c \in calls : updateOrderStatusUpdate(c, TRUE)

SpecKitchen == InitKitchen /\ [][NextKitchen]_vars

\* The Orders page open on a client of the student, the update request of
\* updateOrderStatus sent from it for any order and any status, one that is no
\* status among them (the buttons are one way to send it, not the only one),
\* and the student's request for another role in the own profile.
NextApi ==
  \/ \E p \in {"orders", "home"} : Settled("t1") /\ Navigate("t1", p)
  \/ \E c \in calls : checkAuthAndLoadOrders(c)
  \/ \E c \in calls : getCurrentProfileUser(c, TRUE)
  \/ \E c \in calls : getCurrentProfile(c, TRUE)
  \/ \E c \in calls : loadOrdersUser(c, TRUE)
  \/ \E c \in calls, ok \in BOOLEAN : loadOrders(c, ok)
  \/ \E t \in Tabs : Settled(t) /\ ClickStatus(t)
  \/ \E t \in Tabs, o \in orders, st \in Statuses \cup {"bogus"} :
       Settled(t) /\ updateOrderStatus(t, o.id, st)
  \/ \E c \in calls, ok \in BOOLEAN : updateOrderStatusUpdate(c, ok)
  \/ \E role \in Roles : updateProfileRole("t1", role)

SpecApi == InitKitchen /\ [][NextApi]_vars

\* ------------------------------------------------------------------ claims
ItemsOf(o) == { r \in order_items : r.order_id = o.id }

\* call c takes a step: it is in flight and is not at its await afterwards
Stepped(c) ==
  /\ c \in calls
  /\ ~ \E d \in calls' : d.tab = c.tab /\ d.n = c.n /\ d.fn = c.fn /\ d.pc = c.pc

\* the call that c has become, if it goes on
After(c) == { d \in calls' : d.tab = c.tab /\ d.n = c.n /\ Stepped(c) }

At(c, fn, pc) == c.fn = fn /\ c.pc = pc

\* C1: checkout is all-or-nothing for its caller: once no checkout call is at
\* work on an order, the order has its order items.
C1_AllOrNothing ==
  \A o \in orders :
    (\A c \in calls : ~ (At(c, "handleCheckout", "order_items") /\ c.order_id = o.id))
      => ItemsOf(o) # {}

\* C2: of two checkout calls of one student that are in flight together on the
\* same cart entries, at most one has created an order.
Inserted(c) == c.fn = "handleCheckout" /\ c.pc \in {"order_items", "cart_items"}

C2_OneOrderPerCart ==
  \A c1 \in calls, c2 \in calls :
    (c1 # c2 /\ c1.user = c2.user /\ c1.items = c2.items)
      => ~ (Inserted(c1) /\ Inserted(c2))

\* C3: no cart entry is charged twice: the order items made from one cart entry
\* all belong to one order.
C3_NoDoubleCharge ==
  \A r1 \in order_items, r2 \in order_items :
    r1.cart_item = r2.cart_item => r1.order_id = r2.order_id

\* the legal-transition table of the fulfillment state machine
LegalTransitions ==
  { <<"pending", "preparing">>, <<"pending", "cancelled">>,
    <<"preparing", "ready">>, <<"preparing", "cancelled">>,
    <<"ready", "completed">>, <<"ready", "cancelled">> }

\* C4: the persisted status of an order only ever changes along an edge of the
\* legal-transition table.
C4_OnlyLegalEdges ==
  [][\A o \in orders, n \in orders' :
       (o.id = n.id /\ o.status # n.status) => <<o.status, n.status>> \in LegalTransitions]_vars

\* C5: completed and cancelled are terminal: an order in one of them keeps it.
C5_TerminalStays ==
  [][\A o \in orders, n \in orders' :
       (o.id = n.id /\ o.status \in {"completed", "cancelled"}) => n.status = o.status]_vars

\* C6: no step takes an order back to an earlier fulfillment stage or over a
\* stage: between the stages pending, preparing, ready, completed an order stays
\* or moves on by exactly one.
Stage(status) ==
  CASE status = "pending" -> 0
    [] status = "preparing" -> 1
    [] status = "ready" -> 2
    [] status = "completed" -> 3

C6_NoSkipNoReverse ==
  [][\A o \in orders, n \in orders' :
       (o.id = n.id /\ o.status # "cancelled" /\ n.status # "cancelled")
         => Stage(n.status) - Stage(o.status) \in {0, 1}]_vars

\* C7: an updateStatus call whose request runs for a caller who is not admin
\* changes no order and ends in the error path ('Failed to update order
\* status'), not in success.
C7_NonAdminDenied ==
  [][\A c \in calls :
       (At(c, "updateOrderStatus", "update") /\ Stepped(c) /\ Role(c.jwt) # "admin")
         => /\ orders' = orders
            /\ After(c) = {}
            /\ toast' = Toast(c.tab, "Failed to update order status")]_vars

\* C8: while only addItem calls have touched the cart and none is in flight,
\* the quantities in the cart add up to the number of calls made.
RECURSIVE TotalQuantity(_)
TotalQuantity(rows) ==
  IF rows = {} THEN 0
  ELSE LET r == CHOOSE x \in rows : TRUE
       IN r.quantity + TotalQuantity(rows \ {r})

C8_QuantityIsCallCount ==
  (orders = {} /\ \A c \in calls : c.fn # "handleAddToCart")
    => TotalQuantity(cart_items) = adds

\* C9: an addItem call that returns success leaves the entry it found with one
\* more than the quantity it found, or, having found none, a new entry of
\* quantity 1; every other cart entry is as before.
AddReturns(c) ==
  /\ At(c, "handleAddToCart", "write") /\ Stepped(c)
  /\ toast' = Toast(c.tab, "Added to cart!")

EntryOf(table, u, m) == { r \in table : r.student_id = u /\ r.menu_item_id = m }

C9_IncrementOrCreate ==
  [][\A c \in calls :
       AddReturns(c) =>
         LET others(table) == table \ EntryOf(table, c.user, c.item)
         IN /\ \E r \in EntryOf(cart_items', c.user, c.item) :
                 /\ EntryOf(cart_items', c.user, c.item) = {r}
                 /\ IF c.existing = {}
                    THEN r.quantity = 1
                    ELSE \A e \in c.existing : r.quantity = e.quantity + 1
            /\ others(cart_items') = others(cart_items)]_vars

\* ------------------------------------------------------- the Cart page alone
\* The student's cart as handleAddToCart leaves it after q1 calls for m1 and q2
\* calls for m2 (entry 1 is m1's, entry 2 is m2's), and the Cart page on one
\* client with its payment method and its Place Order button; the student
\* waits for each call to end.
CartRows(u, q1, q2) ==
  { r \in { [id |-> 1, student_id |-> u, menu_item_id |-> "m1", quantity |-> q1],
            [id |-> 2, student_id |-> u, menu_item_id |-> "m2", quantity |-> q2] } :
      r.quantity > 0 }

InitCart ==
  /\ menu_items = SeedMenu
  /\ \E q1 \in 0..MaxQty, q2 \in 0..MaxQty :
       /\ cart_items = CartRows("s1", q1, q2)
       /\ adds = q1 + q2
  /\ orders = {}
  /\ order_items = {}
  /\ profiles = SeedProfiles
  /\ next_cart_id = 3
  /\ next_order_id = 1
  /\ session = SeedSession
  /\ calls = {}
  /\ page = [t \in Tabs |-> "home"]
  /\ cartItems = [t \in Tabs |-> {}]
  /\ paymentMethod = [t \in Tabs |-> "upi"]
  /\ menuItems = [t \in Tabs |-> {}]
  /\ isAuthenticated = [t \in Tabs |-> FALSE]
  /\ ordersView = [t \in Tabs |-> <<>>]
  /\ isAdmin = [t \in Tabs |-> FALSE]
  /\ loading = [t \in Tabs |-> FALSE]
  /\ isLoading = [t \in Tabs |-> FALSE]
  /\ profile = [t \in Tabs |-> Null]
  /\ toast = Toast(Null, Null)
  /\ error = FALSE

NextCart ==
  \/ Settled("t1") /\ Navigate("t1", "cart")
  \/ \E c \in calls : checkAuthAndLoadCart(c)
  \/ \E c \in calls : loadCartUser(c, TRUE)
  \/ \E c \in calls, ok \in BOOLEAN : loadCart(c, ok)
  \/ \E pm \in PaymentMethods : Settled("t1") /\ setPaymentMethod("t1", pm)
  \/ \E t \in Tabs : Settled(t) /\ ClickPlaceOrder(t)
  \/ \E c \in calls, ms \in ClockReadings(NumbersInUse) : handleCheckoutUser(c, TRUE, ms)
  \/ \E c \in calls, ok \in BOOLEAN : handleCheckoutOrder(c, ok)
  \/ \E c \in calls, ok \in BOOLEAN : handleCheckoutItems(c, ok)
  \/ \E c \in calls, ok \in BOOLEAN : handleCheckoutClear(c, ok)
  \/ \E c \in calls : checkAuthAndLoadOrders(c)
  \/ \E c \in calls : getCurrentProfileUser(c, TRUE)
  \/ \E c \in calls : getCurrentProfile(c, TRUE)
  \/ \E c \in calls : loadOrdersUser(c, TRUE)
  \/ \E c \in calls : loadOrders(c, TRUE)

SpecCart == InitCart /\ [][NextCart]_vars

\* The same carts with the Cart page open on two clients of the student and its
\* quantity and remove buttons; an update of a quantity is carried out or fails.
NextCartButtons ==
  \/ \E t \in {"t1", "t2"} : Settled(t) /\ Navigate(t, "cart")
  \/ \E c \in calls : checkAuthAndLoadCart(c)
  \/ \E c \in calls : loadCartUser(c, TRUE)
  \/ \E c \in calls : loadCart(c, TRUE)
  \/ \E t \in Tabs : Settled(t) /\ ClickQuantity(t)
  \/ \E c \in calls, ok \in BOOLEAN : updateQuantityUpdate(c, ok)
  \/ \E t \in Tabs : Settled(t) /\ ClickRemove(t)
  \/ \E c \in calls : removeItemDelete(c, TRUE)

SpecCartButtons == InitCart /\ [][NextCartButtons]_vars

\* The Cart page on one client of a student who does not wait: Place Order is
\* pressed again, and the page left and opened again, while calls are in flight.
NextHaste ==
  \/ \E p \in {"cart", "home"} : Navigate("t1", p)
  \/ \E c \in calls : checkAuthAndLoadCart(c)
  \/ \E c \in calls : loadCartUser(c, TRUE)
  \/ \E c \in calls : loadCart(c, TRUE)
  \/ ClickPlaceOrder("t1")
  \/ \E c \in calls, ms \in ClockReadings(NumbersInUse) : handleCheckoutUser(c, TRUE, ms)
  \/ \E c \in calls : handleCheckoutOrder(c, TRUE)
  \/ \E c \in calls : handleCheckoutItems(c, TRUE)
  \/ \E c \in calls : handleCheckoutClear(c, TRUE)
  \/ \E c \in calls : checkAuthAndLoadOrders(c)
  \/ \E c \in calls : getCurrentProfileUser(c, TRUE)
  \/ \E c \in calls : getCurrentProfile(c, TRUE)
  \/ \E c \in calls : loadOrdersUser(c, TRUE)
  \/ \E c \in calls : loadOrders(c, TRUE)

SpecHaste == InitCart /\ [][NextHaste]_vars

\* The Cart page of SpecCart while the admin changes prices on the menu: to the
\* seeded price or to 3.
PriceChoices(m) == { SeedMenu[m].price, 3 }

NextPrices ==
  \/ Settled("t1") /\ Navigate("t1", "cart")
  \/ \E c \in calls : checkAuthAndLoadCart(c)
  \/ \E c \in calls : loadCartUser(c, TRUE)
  \/ \E c \in calls : loadCart(c, TRUE)
  \/ \E t \in Tabs : Settled(t) /\ ClickPlaceOrder(t)
  \/ \E c \in calls, ms \in ClockReadings(NumbersInUse) : handleCheckoutUser(c, TRUE, ms)
  \/ \E c \in calls : handleCheckoutOrder(c, TRUE)
  \/ \E c \in calls : handleCheckoutItems(c, TRUE)
  \/ \E c \in calls : handleCheckoutClear(c, TRUE)
  \/ \E c \in calls : checkAuthAndLoadOrders(c)
  \/ \E c \in calls : getCurrentProfileUser(c, TRUE)
  \/ \E c \in calls : getCurrentProfile(c, TRUE)
  \/ \E c \in calls : loadOrdersUser(c, TRUE)
  \/ \E c \in calls : loadOrders(c, TRUE)
  \/ \E m \in Items : \E p \in PriceChoices(m) : updateMenuItem("t3", m, p, TRUE)

SpecPrices == InitCart /\ [][NextPrices]_vars

\* The student on two clients, on the menu and on the cart, one call at a time:
\* nothing is clicked and no page is opened while a call is in flight on
\* either client.
NextSerial ==
  \/ \E o \in ShopOpens : calls = {} /\ Navigate(o[1], o[2])
  \/ \E c \in calls : checkAuth(c)
  \/ \E c \in calls : loadMenuItems(c, TRUE)
  \/ \E t \in Tabs, m \in Items : calls = {} /\ handleAddToCart(t, m)
  \/ \E c \in calls : handleAddToCartUser(c, TRUE)
  \/ \E c \in calls : handleAddToCartRead(c, TRUE)
  \/ \E c \in calls : handleAddToCartWrite(c, TRUE)
  \/ \E c \in calls : checkAuthAndLoadCart(c)
  \/ \E c \in calls : loadCartUser(c, TRUE)
  \/ \E c \in calls : loadCart(c, TRUE)
  \/ \E t \in Tabs : calls = {} /\ ClickPlaceOrder(t)
  \/ \E c \in calls, ms \in ClockReadings(NumbersInUse) : handleCheckoutUser(c, TRUE, ms)
  \/ \E c \in calls : handleCheckoutOrder(c, TRUE)
  \/ \E c \in calls : handleCheckoutItems(c, TRUE)
  \/ \E c \in calls : handleCheckoutClear(c, TRUE)
  \/ \E c \in calls : checkAuthAndLoadOrders(c)
  \/ \E c \in calls : getCurrentProfileUser(c, TRUE)
  \/ \E c \in calls : getCurrentProfile(c, TRUE)
  \/ \E c \in calls : loadOrdersUser(c, TRUE)
  \/ \E c \in calls : loadOrders(c, TRUE)

SpecSerial == Init /\ [][NextSerial]_vars

\* C10: every order satisfies total = subtotal + tax with all three
\* non-negative, and an order that has its order items has their line subtotals,
\* each priceAtOrder x quantity, adding up to its subtotal.
RECURSIVE SumSubtotals(_)
SumSubtotals(rows) ==
  IF rows = {} THEN 0
  ELSE LET r == CHOOSE x \in rows : TRUE
       IN r.subtotal + SumSubtotals(rows \ {r})

C10_TotalsAddUp ==
  \A o \in orders :
    /\ o.total = DecPlus(Whole(o.subtotal), o.tax)
    /\ o.subtotal >= 0 /\ DecNonNegative(o.tax) /\ DecNonNegative(o.total)
    /\ ItemsOf(o) # {} =>
         /\ o.subtotal = SumSubtotals(ItemsOf(o))
         /\ \A r \in ItemsOf(o) : r.subtotal = r.price_at_order * r.quantity

\* C11: computeTotals of the entries a Cart page holds: subtotal is the sum, entry
\* by entry, of unit price x quantity, tax is 5% of the subtotal, total is
\* subtotal + tax; 2 units at 100 and 1 unit at 150 give 350, 17.5 and 367.5; and
\* these are the amounts of the order a checkout makes from the entries.
RECURSIVE LinesUpTo(_, _)
LinesUpTo(items, n) ==
  IF n = 0 THEN 0
  ELSE LET line == { it \in items : it.id = n }
           amount == IF line = {} THEN 0
                     ELSE LET it == CHOOSE x \in line : TRUE
                          IN it.menu_item.price * it.quantity
       IN amount + LinesUpTo(items, n - 1)

ExampleCart == { CartLine(1, "m1", 2), CartLine(2, "m2", 1) }

C11_ComputeTotals ==
  /\ \A t \in Tabs :
       LET tot == calculateTotal(cartItems[t])
       IN /\ tot.subtotal = LinesUpTo(cartItems[t], next_cart_id)
          /\ tot.tax = Dec(TaxRatePercent * tot.subtotal, 0)
          /\ tot.total = DecPlus(Whole(tot.subtotal), tot.tax)
          /\ cartItems[t] = ExampleCart
               => tot = [subtotal |-> 350, tax |-> Dec(1750, 0), total |-> Dec(36750, 0)]
  /\ \A c \in calls :
       Inserted(c) =>
         \E o \in orders :
           /\ o.id = c.order_id
           /\ o.subtotal = calculateTotal(c.items).subtotal
           /\ o.tax = calculateTotal(c.items).tax
           /\ o.total = calculateTotal(c.items).total

\* C12: a checkout call made while the caller's Cart Ledger holds no entries
\* fails (it does not go on to the order items) and creates no order and no
\* order item.
LedgerOf(u) == { r \in cart_items : r.student_id = u }

C12_EmptyCartRejected ==
  [][\A c \in calls :
       (At(c, "handleCheckout", "orders") /\ Stepped(c) /\ LedgerOf(c.user) = {})
         => /\ orders' = orders
            /\ order_items' = order_items
            /\ After(c) = {}]_vars

\* C13: after a successful checkout the cart becomes empty: at once when the
\* clear is carried out, and otherwise by the student's next checkout attempt:
\* when a checkout call returns, the caller's cart holds no entry that an
\* earlier checkout has already put into an order.
CheckoutReturns(c) ==
  /\ c.fn = "handleCheckout" /\ Stepped(c)
  /\ \A d \in After(c) : d.fn # "handleCheckout"

OrderedEarlier(c) ==
  { r.cart_item : r \in { x \in order_items : x.order_id # c.order_id } }

C13_CartEmptiedByNextAttempt ==
  [][\A c \in calls :
       (CheckoutReturns(c) /\ c.pc # "getUser") =>
         /\ \A r \in cart_items' :
              r.student_id = c.user => r.id \notin OrderedEarlier(c)
         /\ (c.pc = "cart_items" /\ cart_items' # cart_items)
              => \A r \in cart_items' : r.student_id # c.user]_vars

\* C14: a clear that fails after the order and its items were created does not
\* fail the checkout: the call ends in 'Order placed successfully!' with orders
\* and order items as they were; and the checkout attempt that follows cleans
\* the stale entries up: once it has been called, none of the caller's cart
\* entries is one already put into an order.
ClearFails(c) ==
  /\ At(c, "handleCheckout", "cart_items") /\ Stepped(c)
  /\ error'

CheckoutCalled(c) == At(c, "handleCheckout", "getUser") /\ Stepped(c)

C14_ClearFailureNonFatal ==
  [][\A c \in calls :
       /\ ClearFails(c) =>
            /\ orders' = orders /\ order_items' = order_items
            /\ toast' = Toast(c.tab, "Order placed successfully!")
            /\ page'[c.tab] = "orders"
       /\ CheckoutCalled(c) =>
            \A r \in cart_items' :
              r.student_id = session[c.tab] => r.id \notin { x.cart_item : x \in order_items }]_vars

\* ------------------------------------------- orders, cart and menu together
\* The student has placed two orders (as in InitKitchen) and then put m1 into
\* the cart again; the student works on the Cart page with the quantity and
\* remove buttons, the admin on the Orders page and on the menu.
InitLedger ==
  /\ menu_items = SeedMenu
  /\ cart_items = { [id |-> 3, student_id |-> "s1", menu_item_id |-> "m1", quantity |-> 1] }
  /\ orders = PlacedOrders
  /\ order_items = PlacedOrderItems
  /\ profiles = SeedProfiles
  /\ next_cart_id = 4
  /\ next_order_id = 3
  /\ session = SeedSession
  /\ calls = {}
  /\ page = [t \in Tabs |-> "home"]
  /\ cartItems = [t \in Tabs |-> {}]
  /\ paymentMethod = [t \in Tabs |-> "upi"]
  /\ menuItems = [t \in Tabs |-> {}]
  /\ isAuthenticated = [t \in Tabs |-> FALSE]
  /\ ordersView = [t \in Tabs |-> <<>>]
  /\ isAdmin = [t \in Tabs |-> FALSE]
  /\ loading = [t \in Tabs |-> FALSE]
  /\ isLoading = [t \in Tabs |-> FALSE]
  /\ profile = [t \in Tabs |-> Null]
  /\ toast = Toast(Null, Null)
  /\ error = FALSE
  /\ adds = 3

NextLedger ==
  \/ Settled("t1") /\ Navigate("t1", "cart")
  \/ Settled("t3") /\ Navigate("t3", "orders")
  \/ \E c \in calls : checkAuthAndLoadCart(c)
  \/ \E c \in calls : loadCartUser(c, TRUE)
  \/ \E c \in calls : loadCart(c, TRUE)
  \/ \E t \in Tabs : Settled(t) /\ ClickQuantity(t)
  \/ \E c \in calls : updateQuantityUpdate(c, TRUE)
  \/ \E t \in Tabs : Settled(t) /\ ClickRemove(t)
  \/ \E c \in calls : removeItemDelete(c, TRUE)
  \/ \E c \in calls : checkAuthAndLoadOrders(c)
  \/ \E c \in calls : getCurrentProfileUser(c, TRUE)
  \/ \E c \in calls : getCurrentProfile(c, TRUE)
  \/ \E c \in calls : loadOrdersUser(c, TRUE)
  \/ \E c \in calls : loadOrders(c, TRUE)
  \/ \E t \in Tabs : Settled(t) /\ ClickStatus(t)
  \/ \E c \in calls, ok \in BOOLEAN : updateOrderStatusUpdate(c, ok)
  \/ \E p \in PriceChoices("m1"), a \in BOOLEAN : updateMenuItem("t3", "m1", p, a)

SpecLedger == InitLedger /\ [][NextLedger]_vars

\* C15: order lines are frozen: every order_items row stays as it is (price at
\* order, quantity, line subtotal) and every order keeps its subtotal, tax and
\* total, whatever a step does to the menu, the cart or an order's status.
C15_OrderLinesFrozen ==
  [][/\ \A r \in order_items : r \in order_items'
     /\ \A o \in orders : \E n \in orders' :
          /\ n.id = o.id
          /\ n.subtotal = o.subtotal /\ n.tax = o.tax /\ n.total = o.total]_vars

\* the menu price of m1 is no longer the price order 1 was placed at, the order
\* has moved on, and the cart has been changed
C15_Witness ==
  /\ \E r \in order_items :
       /\ r.price_at_order # menu_items[r.menu_item_id].price
       /\ \E o \in orders : o.id = r.order_id /\ o.status # "pending"
  /\ ~ menu_items["m1"].is_available
  /\ \A r \in cart_items : r.quantity # 1

\* C20: an updateStatus call changes nothing but status (payment status and
\* completion time aside) of at most one order: every order keeps student,
\* order number, amounts and payment method; order items, cart and menu stay.
UpdateStatusCall(c) == At(c, "updateOrderStatus", "update") /\ Stepped(c)

C20_OnlyStatusChanges ==
  [][\A c \in calls :
       UpdateStatusCall(c) =>
         /\ \A o \in orders : \E n \in orders' :
              /\ n.id = o.id
              /\ [n EXCEPT !.status = o.status,
                           !.payment_status = o.payment_status,
                           !.completed_at = o.completed_at] = o
         /\ Cardinality(orders') = Cardinality(orders)
         /\ Cardinality(orders \ orders') <= 1
         /\ order_items' = order_items
         /\ cart_items' = cart_items
         /\ menu_items' = menu_items]_vars

\* a status update has just gone through while the cart holds an entry
C20_Witness ==
  /\ toast.msg = "Order status updated"
  /\ \E c \in calls : c.fn = "loadOrders" /\ c.tab = toast.tab
  /\ \E o \in orders : o.status # "pending"
  /\ \E o \in orders : o.status = "pending"
  /\ cart_items # {}

\* C16: every cart entry has quantity >= 1, and an updateQuantity call with a
\* new quantity below 1 changes nothing: there is no such call after which the
\* cart, or anything else, differs.
C16_QuantityAtLeastOne ==
  /\ \A r \in cart_items : r.quantity >= 1
  /\ \A t \in Tabs, q \in {0 - 1, 0} : \A r \in cart_items :
       ~ ENABLED (updateQuantity(t, r.id, q) /\ vars' # vars)

\* the Cart page lists an entry at quantity 1 (its - button asks for 0) after
\* the cart was reduced from two units to this
C16_Witness ==
  \E t \in Tabs :
    /\ page[t] = "cart" /\ Settled(t)
    /\ adds = 2
    /\ \E it \in cartItems[t] :
         /\ it.quantity = 1
         /\ cart_items = { [id |-> it.id, student_id |-> session[t],
                            menu_item_id |-> it.menu_item.id, quantity |-> 1] }

\* The Cart page open on a client of the owner and on one of a second student,
\* and the requests of updateQuantity and removeItem sent for any cart entry:
\* the buttons are one way to send them, not the only one.
NextCartApi ==
  \/ \E t \in {"t1", "t5"} : Settled(t) /\ Navigate(t, "cart")
  \/ \E c \in calls : checkAuthAndLoadCart(c)
  \/ \E c \in calls : loadCartUser(c, TRUE)
  \/ \E c \in calls : loadCart(c, TRUE)
  \/ \E t \in Tabs : Settled(t) /\ ClickQuantity(t)
  \/ \E t \in Tabs : Settled(t) /\ ClickRemove(t)
  \/ \E t \in Tabs, r \in cart_items, q \in 1..MaxQty : Settled(t) /\ updateQuantity(t, r.id, q)
  \/ \E t \in Tabs, r \in cart_items : Settled(t) /\ removeItem(t, r.id)
  \/ \E c \in calls, ok \in BOOLEAN : updateQuantityUpdate(c, ok)
  \/ \E c \in calls, ok \in BOOLEAN : removeItemDelete(c, ok)

SpecCartApi == InitCart /\ [][NextCartApi]_vars

\* C17: an updateQuantity or removeItem call whose request runs for a caller
\* who owns no cart entry, made on another student's entry, leaves the cart
\* unchanged and ends in the error path, not in success.
CartCallReturns(c) ==
  /\ At(c, "updateQuantity", "update") \/ At(c, "removeItem", "delete")
  /\ Stepped(c)

C17_OnlyOwnerMutates ==
  [][\A c \in calls :
       (CartCallReturns(c) /\ LedgerOf(c.jwt) = {} /\ cart_items # {})
         => /\ cart_items' = cart_items
            /\ After(c) = {}
            /\ toast'.tab = c.tab
            /\ toast'.msg \in {"Failed to update quantity", "Failed to remove item"}]_vars

\* C18: an order has its completion time set exactly when its status is
\* completed.
C18_CompletedAtStamped ==
  \A o \in orders : (o.status = "completed") <=> (o.completed_at # NoTime)

\* ------------------------------------------------ orders of two students
\* Student s1 has placed two orders and student s2 a third; s2 and the admin
\* have the Orders page on a client each, and the admin moves orders on.  The
\* read of profiles is answered or fails.
InitOrders ==
  /\ menu_items = SeedMenu
  /\ cart_items = {}
  /\ orders = PlacedOrders \cup { OrderRow(3, "s2", {CartLine(3, "m1", 1)}, 2, "upi") }
  /\ order_items = PlacedOrderItems \cup OrderItemRows(3, {CartLine(3, "m1", 1)})
  /\ profiles = SeedProfiles
  /\ next_cart_id = 4
  /\ next_order_id = 4
  /\ session = SeedSession
  /\ calls = {}
  /\ page = [t \in Tabs |-> "home"]
  /\ cartItems = [t \in Tabs |-> {}]
  /\ paymentMethod = [t \in Tabs |-> "upi"]
  /\ menuItems = [t \in Tabs |-> {}]
  /\ isAuthenticated = [t \in Tabs |-> FALSE]
  /\ ordersView = [t \in Tabs |-> <<>>]
  /\ isAdmin = [t \in Tabs |-> FALSE]
  /\ loading = [t \in Tabs |-> FALSE]
  /\ isLoading = [t \in Tabs |-> FALSE]
  /\ profile = [t \in Tabs |-> Null]
  /\ toast = Toast(Null, Null)
  /\ error = FALSE
  /\ adds = 3

NextOrders ==
  \/ \E t \in {"t3", "t5"}, p \in {"orders", "home"} : Settled(t) /\ Navigate(t, p)
  \/ \E c \in calls : checkAuthAndLoadOrders(c)
  \/ \E c \in calls : getCurrentProfileUser(c, TRUE)
  \/ \E c \in calls, ok \in BOOLEAN : getCurrentProfile(c, ok)
  \/ \E c \in calls : loadOrdersUser(c, TRUE)
  \/ \E c \in calls : loadOrders(c, TRUE)
  \/ \E t \in Tabs : Settled(t) /\ ClickStatus(t)
  \/ \E c \in calls : updateOrderStatusUpdate(c, TRUE)

SpecOrders == InitOrders /\ [][NextOrders]_vars

\* C19: what loadOrders puts on the page: for a student exactly the student's
\* own orders, for an admin all orders, each with its persisted status, newest
\* first.
LoadOrdersReturns(c) ==
  At(c, "loadOrders", "select") /\ Stepped(c) /\ c.mounted /\ ~ error'

VisibleTo(u) ==
  IF Role(u) = "admin" THEN orders ELSE { o \in orders : o.student_id = u }

C19_ListOrders ==
  [][\A c \in calls :
       LoadOrdersReturns(c) =>
         LET v == ordersView'[c.tab]
         IN /\ Len(v) = Cardinality(VisibleTo(c.user))
            /\ \A o \in VisibleTo(c.user) :
                 \E i \in 1..Len(v) : v[i].id = o.id /\ v[i].status = o.status
            /\ \A i \in 1..Len(v) : \A j \in 1..Len(v) :
                 i < j => v[i].created_at > v[j].created_at]_vars

\* ------------------------------------------------------- the menu page
\* The student on two clients on the Menu page while the admin takes items off
\* the menu and puts them back.
NextMenu ==
  \/ \E t \in {"t1", "t2"} : Settled(t) /\ Navigate(t, "menu")
  \/ \E c \in calls : checkAuth(c)
  \/ \E c \in calls : loadMenuItems(c, TRUE)
  \/ \E t \in Tabs, m \in Items : Settled(t) /\ handleAddToCart(t, m)
  \/ \E c \in calls : handleAddToCartUser(c, TRUE)
  \/ \E c \in calls : handleAddToCartRead(c, TRUE)
  \/ \E c \in calls, ok \in BOOLEAN : handleAddToCartWrite(c, ok)
  \/ \E a \in BOOLEAN : updateMenuItem("t3", "m1", SeedMenu["m1"].price, a)

SpecMenu == Init /\ [][NextMenu]_vars

\* C21: an addItem call for a menu item that is not available when the call
\* comes to write fails: it ends in an error and creates or changes no cart
\* entry.
AddWrites(c) == At(c, "handleAddToCart", "write") /\ Stepped(c)

C21_UnavailableRejected ==
  [][\A c \in calls :
       (AddWrites(c) /\ ~ menu_items[c.item].is_available)
         => /\ cart_items' = cart_items
            /\ toast'.tab = c.tab
            /\ toast'.msg \in {"Failed to add to cart", "Failed to update cart"}]_vars

\* C27: there is at most one cart entry per student and menu item, also after
\* two addItem calls for one pair that both found no entry before either
\* inserted.
C27_OneEntryPerPair ==
  \A r1 \in cart_items, r2 \in cart_items :
    (r1.student_id = r2.student_id /\ r1.menu_item_id = r2.menu_item_id) => r1.id = r2.id

\* an addItem call that had found no entry was turned away on its insert: the
\* entry of another call for the pair was there first
C27_Witness ==
  /\ toast.msg = "Failed to add to cart"
  /\ adds = 2
  /\ \E r \in cart_items :
       /\ r.student_id = session[toast.tab] /\ r.quantity = 1
       /\ cart_items = {r}

\* --------------------------------------------------- the orders desk
\* Student s2 has one entry in the cart and places orders from the Cart page,
\* the first one paid by UPI or by card; the admin moves the orders on from the
\* Orders page.
InitDesk ==
  /\ menu_items = SeedMenu
  /\ cart_items = CartRows("s2", 0, 1)
  /\ orders = {}
  /\ order_items = {}
  /\ profiles = SeedProfiles
  /\ next_cart_id = 3
  /\ next_order_id = 1
  /\ session = SeedSession
  /\ calls = {}
  /\ page = [t \in Tabs |-> "home"]
  /\ cartItems = [t \in Tabs |-> {}]
  /\ paymentMethod = [t \in Tabs |-> "upi"]
  /\ menuItems = [t \in Tabs |-> {}]
  /\ isAuthenticated = [t \in Tabs |-> FALSE]
  /\ ordersView = [t \in Tabs |-> <<>>]
  /\ isAdmin = [t \in Tabs |-> FALSE]
  /\ loading = [t \in Tabs |-> FALSE]
  /\ isLoading = [t \in Tabs |-> FALSE]
  /\ profile = [t \in Tabs |-> Null]
  /\ toast = Toast(Null, Null)
  /\ error = FALSE
  /\ adds = 1

NextDesk ==
  \/ Settled("t5") /\ Navigate("t5", "cart")
  \/ Settled("t3") /\ Navigate("t3", "orders")
  \/ \E c \in calls : checkAuthAndLoadCart(c)
  \/ \E c \in calls : loadCartUser(c, TRUE)
  \/ \E c \in calls : loadCart(c, TRUE)
  \/ Settled("t5") /\ orders = {} /\ setPaymentMethod("t5", "card")
  \/ \E t \in Tabs : Settled(t) /\ ClickPlaceOrder(t)
  \/ \E c \in calls, ms \in ClockReadings(NumbersInUse) : handleCheckoutUser(c, TRUE, ms)
  \/ \E c \in calls : handleCheckoutOrder(c, TRUE)
  \/ \E c \in calls : handleCheckoutItems(c, TRUE)
  \/ \E c \in calls, ok \in BOOLEAN : handleCheckoutClear(c, ok)
  \/ \E c \in calls : checkAuthAndLoadOrders(c)
  \/ \E c \in calls : getCurrentProfileUser(c, TRUE)
  \/ \E c \in calls : getCurrentProfile(c, TRUE)
  \/ \E c \in calls : loadOrdersUser(c, TRUE)
  \/ \E c \in calls : loadOrders(c, TRUE)
  \/ \E t \in Tabs : Settled(t) /\ ClickStatus(t)
  \/ \E c \in calls : updateOrderStatusUpdate(c, TRUE)

SpecDesk == InitDesk /\ [][NextDesk]_vars

\* C22: every order is created with status pending and payment status
\* completed and with the student who ran the checkout as its student, and
\* keeps that student through every later step.
CreatedBy(c, n) ==
  /\ At(c, "handleCheckout", "orders") /\ Stepped(c)
  /\ \E d \in After(c) : d.order_id = n.id

C22_CreatedPendingPaidOwned ==
  [][/\ \A n \in orders' :
          (\A o \in orders : o.id # n.id)
            => /\ n.status = "pending"
               /\ n.payment_status = "completed"
               /\ \E c \in calls :
                    CreatedBy(c, n) /\ n.student_id = c.user /\ c.user = session[c.tab]
     /\ \A o \in orders : \E n \in orders' : n.id = o.id /\ n.student_id = o.student_id]_vars

\* student s2 has placed two orders, one of them paid by card, and the admin
\* has moved one of them on
C22_Witness ==
  /\ Cardinality(orders) = 2
  /\ \A o \in orders : o.student_id = "s2" /\ o.payment_status = "completed"
  /\ \E o \in orders : o.payment_method = "card"
  /\ \E o \in orders : o.status \notin {"pending", "cancelled"}
  /\ toast.msg = "Order status updated"

\* ----------------------------------------------------- the admin as customer
\* One client on which the admin is signed in: from the sign-in page to the
\* dashboard and the profile page, signing out and in again or signing up as
\* somebody new, and on to the Menu page and the Cart page as any signed-in
\* user can (Menu.tsx:85, Cart.tsx:34-42 ask for a session, not for a role).
NextAdminShop ==
  \/ \E p \in {"auth", "admin", "profile", "menu", "cart"} : Settled("t3") /\ Navigate("t3", p)
  \/ \E c \in calls : checkSession(c)
  \/ \E c \in calls, ok \in BOOLEAN : checkSessionProfile(c, ok)
  \/ Settled("t3") /\ handleSignIn("t3", "a1")
  \/ \E c \in calls, ok \in BOOLEAN : handleSignInAnswer(c, ok)
  \/ \E c \in calls : handleSignInProfile(c, TRUE)
  \/ \E u \in NewUsers \cup {"a1"}, role \in Roles : Settled("t3") /\ handleSignUp("t3", u, role)
  \/ \E c \in calls, ok \in BOOLEAN : handleSignUpAnswer(c, ok)
  \/ \E c \in calls : dashboardCheckAuth(c)
  \/ \E c \in calls : loadDashboardDataUser(c, TRUE)
  \/ \E c \in calls : loadDashboardDataCart(c, TRUE)
  \/ \E c \in calls : loadDashboardDataOrders(c, TRUE)
  \/ \E c \in calls : loadStatsOrders(c, TRUE)
  \/ \E c \in calls : loadStatsMenu(c, TRUE)
  \/ \E c \in calls : getCurrentProfileUser(c, TRUE)
  \/ \E c \in calls : getCurrentProfile(c, TRUE)
  \/ Settled("t3") /\ handleLogout("t3")
  \/ \E c \in calls, ok \in BOOLEAN : handleLogoutSignOut(c, ok)
  \/ \E c \in calls : checkAuth(c)
  \/ \E c \in calls : loadMenuItems(c, TRUE)
  \/ \E t \in Tabs, m \in Items : Settled(t) /\ handleAddToCart(t, m)
  \/ \E c \in calls : handleAddToCartUser(c, TRUE)
  \/ \E c \in calls : handleAddToCartRead(c, TRUE)
  \/ \E c \in calls : handleAddToCartWrite(c, TRUE)
  \/ \E c \in calls : checkAuthAndLoadCart(c)
  \/ \E c \in calls : loadCartUser(c, TRUE)
  \/ \E c \in calls : loadCart(c, TRUE)
  \/ \E t \in Tabs : Settled(t) /\ ClickPlaceOrder(t)
  \/ \E c \in calls, ms \in ClockReadings(NumbersInUse) : handleCheckoutUser(c, TRUE, ms)
  \/ \E c \in calls : handleCheckoutOrder(c, TRUE)
  \/ \E c \in calls : handleCheckoutItems(c, TRUE)
  \/ \E c \in calls : handleCheckoutClear(c, TRUE)
  \/ \E c \in calls : checkAuthAndLoadOrders(c)
  \/ \E c \in calls : loadOrdersUser(c, TRUE)
  \/ \E c \in calls : loadOrders(c, TRUE)

SpecAdminShop == Init /\ [][NextAdminShop]_vars

\* C23: admins never own or create orders: the student of every order has the
\* role student.
C23_AdminsOwnNoOrder ==
  \A o \in orders : Role(o.student_id) = "student"

\* -------------------------------------------------- order numbers that repeat
\* The Cart page of SpecCart with a database that carries every insert out: an
\* insert fails only on a constraint or a policy.
NextClock ==
  \/ Settled("t1") /\ Navigate("t1", "cart")
  \/ \E c \in calls : checkAuthAndLoadCart(c)
  \/ \E c \in calls : loadCartUser(c, TRUE)
  \/ \E c \in calls : loadCart(c, TRUE)
  \/ \E t \in Tabs : Settled(t) /\ ClickPlaceOrder(t)
  \/ \E c \in calls, ms \in ClockReadings(NumbersInUse) : handleCheckoutUser(c, TRUE, ms)
  \/ \E c \in calls : handleCheckoutOrder(c, TRUE)
  \/ \E c \in calls : handleCheckoutItems(c, TRUE)
  \/ \E c \in calls, ok \in BOOLEAN : handleCheckoutClear(c, ok)
  \/ \E c \in calls : checkAuthAndLoadOrders(c)
  \/ \E c \in calls : getCurrentProfileUser(c, TRUE)
  \/ \E c \in calls : getCurrentProfile(c, TRUE)
  \/ \E c \in calls : loadOrdersUser(c, TRUE)
  \/ \E c \in calls : loadOrders(c, TRUE)

SpecClock == InitCart /\ [][NextClock]_vars

\* C24: no two orders share an order number, and a checkout does not fail on
\* the first order number it generates being taken: with a fresh number there to
\* retry with, a checkout of a non-empty cart creates its order.
C24_UniqueNumberWithRetry ==
  [][/\ \A o1 \in orders', o2 \in orders' :
          o1.order_number = o2.order_number => o1.id = o2.id
     /\ \A c \in calls :
          (At(c, "handleCheckout", "orders") /\ Stepped(c))
            => /\ After(c) # {}
               /\ Cardinality(orders') = Cardinality(orders) + 1]_vars

\* C25: the prices a checkout snapshots are the live ones: when the call
\* creates its order, the order lines it goes on to insert carry the menu price
\* of that moment, and the order's subtotal is made of those prices.
RECURSIVE LiveSubtotal(_)
LiveSubtotal(items) ==
  IF items = {} THEN 0
  ELSE LET it == CHOOSE x \in items : TRUE
       IN menu_items[it.menu_item.id].price * it.quantity + LiveSubtotal(items \ {it})

C25_LivePriceSnapshot ==
  [][\A c \in calls : \A n \in orders' :
       CreatedBy(c, n) =>
         /\ \A r \in OrderItemRows(n.id, c.items) :
              r.price_at_order = menu_items[r.menu_item_id].price
         /\ n.subtotal = LiveSubtotal(c.items)]_vars

\* C26: a checkout that creates its order makes one order line per entry of
\* the caller's Cart Ledger as persisted at the call, with the entry's menu item
\* and quantity: none missing, none without an entry.
LinesOf(items) == { <<it.menu_item.id, it.quantity>> : it \in items }

EntriesOf(u) == { <<r.menu_item_id, r.quantity>> : r \in LedgerOf(u) }

C26_OneLinePerPersistedEntry ==
  [][\A c \in calls : \A n \in orders' :
       CreatedBy(c, n) =>
         /\ LinesOf(c.items) = EntriesOf(c.user)
         /\ Cardinality(OrderItemRows(n.id, c.items)) = Cardinality(LedgerOf(c.user))]_vars

\* C28: the clear at the end of a checkout removes only what was ordered:
\* every cart entry it deletes is a line of the order just created, with the
\* quantity deleted.
C28_ClearOnlyOrdered ==
  [][\A c \in calls :
       (At(c, "handleCheckout", "cart_items") /\ Stepped(c)) =>
         \A r \in { x \in cart_items : \A k \in cart_items' : k.id # x.id } :
           \E x \in order_items :
             /\ x.order_id = c.order_id
             /\ x.menu_item_id = r.menu_item_id
             /\ x.quantity = r.quantity]_vars

\* ------------------------------------------------ the admin's own orders
\* The admin's client of SpecAdminShop, where a checkout ends on the Orders
\* page, with the read of profiles answered or failing.
NextAdminOrders ==
  \/ NextAdminShop
  \/ \E c \in calls : getCurrentProfile(c, FALSE)

SpecAdminOrders == Init /\ [][NextAdminOrders]_vars

\* C29: the status buttons of the Orders page refine the legal-transition
\* table: for an order displayed with status s to an admin the targets offered
\* are exactly the legal targets of s (none for completed and cancelled), and a
\* user who is not admin is offered none.
LegalTargets(status) == { to \in Statuses : <<status, to>> \in LegalTransitions }

C29_ButtonsRefineTable ==
  \A t \in Tabs : \A i \in 1..Len(ordersView[t]) :
    Offered(isAdmin[t], ordersView[t][i].status) =
      IF Role(session[t]) = "admin" THEN LegalTargets(ordersView[t][i].status) ELSE {}

\* C30: a checkout that stops on a write failure writes nothing after it: when
\* the order insert fails, no order item is created and no cart entry deleted;
\* when the order-items insert fails, no cart entry is deleted; the call ends
\* there, and no step of it up to there has changed the cart.
OrderInsertFails(c) ==
  At(c, "handleCheckout", "orders") /\ Stepped(c) /\ error'

ItemsInsertFails(c) ==
  At(c, "handleCheckout", "order_items") /\ Stepped(c) /\ error'

C30_StopsOnWriteFailure ==
  [][\A c \in calls :
       /\ OrderInsertFails(c) =>
            /\ order_items' = order_items /\ cart_items' = cart_items
            /\ After(c) = {}
       /\ ItemsInsertFails(c) =>
            /\ orders' = orders /\ cart_items' = cart_items
            /\ After(c) = {}
       /\ (c.fn = "handleCheckout" /\ c.pc # "cart_items" /\ Stepped(c))
            => cart_items' = cart_items]_vars

\* a checkout has stopped on its order-items insert: its order has no line and
\* the cart still holds its entries
C30_Witness ==
  /\ toast.msg = "Failed to create order items"
  /\ \E o \in orders : ItemsOf(o) = {}
  /\ Cardinality(cart_items) = 2
  /\ calls = {}
====
